---- MODULE Spec2Model ----
(***************************************************************************)
(* A model of the skillpack installer: pack resolution, install-name      *)
(* collisions, install/uninstall reconciliation against the persisted     *)
(* state file, and the crash-safe state writer.                           *)
(*                                                                         *)
(* Strings are sequences of one-character strings, so that concatenation, *)
(* splitting on '/', path joining and component-wise prefix tests are     *)
(* computed the way the Rust code computes them.                          *)
(***************************************************************************)
EXTENDS Integers, Sequences, FiniteSets, TLC

VARIABLES
    fs,         \* the directories that exist: physical path -> content
    stateFile,  \* bytes of the file at the state path, or NoFile
    pc,         \* position of the running command: "idle", "install", "uninstall"
    resolved,   \* the ResolvedPack of the running install command
    packName,   \* the pack name of the running uninstall command
    pending,    \* agents the running command still has to process
    mem,        \* the in-memory StateFile of the running command
    res,        \* what the last step did (operation, error, view)
    tmpFile,    \* bytes of the temporary file of write_state_at, or NoFile
    wpc,        \* position inside write_state_at
    wdata,      \* the serialized bytes write_state_at is writing
    durable,    \* what stable storage holds: [target, temp, renamed]
    cmd,        \* the running command as invoked: its repository, its agents
                \* and the state file it found
    arg,        \* the input handed to a function applied on its own
    ret,        \* what that function returned
    procs       \* the invocations of the program that run at the same time,
                \* each with its command, its position and its StateFile

vars == <<fs, stateFile, pc, resolved, packName, pending, mem, res,
          tmpFile, wpc, wdata, durable, cmd, arg, ret, procs>>

\* no function has been applied on its own
NoArg == [of |-> "none"]
NoRet == [op |-> "none"]

\* no invocation runs next to the command
NoProcs == << >>

----------------------------------------------------------------------------
(* Strings *)

EmptyStr == << >>

\* byte values of the characters of the model's alphabet (str::cmp is bytewise)
CharCode(c) ==
    CASE c = "*" -> 42
      [] c = "." -> 46
      [] c = "/" -> 47
      [] c = "_" -> 95
      [] c = "a" -> 97
      [] c = "b" -> 98
      [] c = "o" -> 111
      [] c = "p" -> 112
      [] c = "q" -> 113
      [] c = "s" -> 115
      [] c = "t" -> 116
      [] c = "x" -> 120
      [] OTHER -> 127

RECURSIVE StrLess(_, _)
\* a < b for Rust strings (lexicographic on bytes)
StrLess(a, b) ==
    IF b = << >> THEN FALSE
    ELSE IF a = << >> THEN TRUE
    ELSE IF Head(a) = Head(b) THEN StrLess(Tail(a), Tail(b))
    ELSE CharCode(Head(a)) < CharCode(Head(b))

StrLeq(a, b) == a = b \/ StrLess(a, b)

RECURSIVE SortInsert(_, _)
SortInsert(x, sorted) ==
    IF sorted = << >> THEN <<x>>
    ELSE IF StrLess(x, Head(sorted)) THEN <<x>> \o sorted
    ELSE <<Head(sorted)>> \o SortInsert(x, Tail(sorted))

RECURSIVE SortStrs(_)
\* Vec<String>::sort(): a stable sort; equal strings are indistinguishable
SortStrs(seq) ==
    IF seq = << >> THEN << >>
    ELSE SortInsert(Head(seq), SortStrs(Tail(seq)))

IsSortedStrs(seq) ==
    \A i \in 1..(Len(seq) - 1) : StrLeq(seq[i], seq[i + 1])

Range(seq) == {seq[i] : i \in 1..Len(seq)}

RECURSIVE Split(_, _)
\* str::split(c): the pieces between occurrences of c, empty pieces kept
Split(s, c) ==
    IF \A i \in 1..Len(s) : s[i] # c THEN <<s>>
    ELSE LET k == CHOOSE i \in 1..Len(s) :
                      s[i] = c /\ \A j \in 1..(i - 1) : s[j] # c
         IN  <<SubSeq(s, 1, k - 1)>> \o Split(SubSeq(s, k + 1, Len(s)), c)

RECURSIVE Replace(_, _, _)
\* str::replace(c, by): every occurrence of the character c becomes by
Replace(s, c, by) ==
    IF s = << >> THEN << >>
    ELSE (IF Head(s) = c THEN by ELSE <<Head(s)>>) \o Replace(Tail(s), c, by)

EndsWith(s, suffix) ==
    /\ Len(s) >= Len(suffix)
    /\ SubSeq(s, Len(s) - Len(suffix) + 1, Len(s)) = suffix

----------------------------------------------------------------------------
(* Paths *)

Slash == <<"/">>
DotDot == <<".", ".">>
Dot == <<".">>

IsAbsolute(p) == Len(p) > 0 /\ p[1] = "/"

\* Path::components(): empty pieces and non-leading "." pieces are dropped,
\* ".." pieces are kept
Components(p) ==
    LET keep(pieces, i) == /\ pieces[i] # EmptyStr
                           /\ ~(pieces[i] = Dot /\ (i > 1 \/ IsAbsolute(p)))
        of(pieces) ==
            [root |-> IsAbsolute(p),
             names |-> SelectSeq([i \in 1..Len(pieces) |-> <<i, pieces[i]>>],
                                 LAMBDA e : keep(pieces, e[1]))]
    IN  of(Split(p, "/"))

ComponentNames(p) ==
    LET second(c) == [i \in 1..Len(c) |-> c[i][2]] IN second(Components(p).names)

\* Path::starts_with(base): component-wise prefix, no resolution of ".."
PathStartsWith(p, base) ==
    LET is_prefix(bn, pn) == Len(bn) <= Len(pn) /\ SubSeq(pn, 1, Len(bn)) = bn
    IN  /\ IsAbsolute(p) = IsAbsolute(base)
        /\ is_prefix(ComponentNames(base), ComponentNames(p))

\* Path::join(rel): an absolute rel replaces the base
PathJoin(base, rel) ==
    IF IsAbsolute(rel) THEN rel
    ELSE IF Len(base) > 0 /\ base[Len(base)] = "/" THEN base \o rel
    ELSE base \o Slash \o rel

RECURSIVE ResolveNames(_, _)
\* what the operating system does with ".." (no symbolic links in the model)
ResolveNames(names, acc) ==
    IF names = << >> THEN acc
    ELSE IF Head(names) = DotDot
         THEN ResolveNames(Tail(names),
                           IF acc = << >> THEN acc ELSE SubSeq(acc, 1, Len(acc) - 1))
    ELSE ResolveNames(Tail(names), Append(acc, Head(names)))

RECURSIVE JoinNames(_)
JoinNames(names) ==
    IF names = << >> THEN << >>
    ELSE Slash \o Head(names) \o JoinNames(Tail(names))

\* the directory an absolute path string denotes, as a canonical string
Physical(p) == JoinNames(ResolveNames(ComponentNames(p), << >>))

\* the canonical path d is dir or lies below it
Within(d, dir) == PathStartsWith(d, dir)

----------------------------------------------------------------------------
(* The file system: a function from existing directories to their content *)

PlainDir == [kind |-> "dir"]
UserContent == [kind |-> "user"]

\* the content copy_skill_dir leaves at a destination; `by` is the pack whose
\* install made the copy
SkillCopy(pack, id) == [kind |-> "skill", by |-> pack, id |-> id]

\* Path::exists()
Exists(f, p) ==
    LET there(d) == d = << >> \/ d \in DOMAIN f IN there(Physical(p))

\* std::fs::remove_dir_all: the directory and everything below it
RemoveDirAll(f, p) ==
    LET without(gone) == [d \in {x \in DOMAIN f : ~Within(x, gone)} |-> f[d]]
    IN  without(Physical(p))

\* std::fs::create_dir_all: the directory and its missing ancestors
CreateDirAll(f, p) ==
    LET chain(names) == {JoinNames(SubSeq(names, 1, k)) : k \in 1..Len(names)}
        with(dirs) == [d \in (DOMAIN f) \cup dirs |-> IF d \in DOMAIN f THEN f[d] ELSE PlainDir]
    IN  with(chain(ResolveNames(ComponentNames(p), << >>)))

\* copy_skill_dir(src, dest): create dest, then copy the source's entries
copy_skill_dir(f, content, dest) ==
    [CreateDirAll(f, dest) EXCEPT ![Physical(dest)] = content]

----------------------------------------------------------------------------
(* state.rs *)

StateVersion == 1

DefaultState == [version |-> StateVersion, installs |-> << >>]

\* a file: absent, or present with its bytes (a sequence of tokens)
NoFile == [present |-> FALSE, bytes |-> << >>]
File(bytes) == [present |-> TRUE, bytes |-> bytes]

\* Option<String>
None == [some |-> FALSE, v |-> EmptyStr]
Some(v) == [some |-> TRUE, v |-> v]

OpenTok == [t |-> "{"]
CloseTok == [t |-> "}"]
VersionTok(v) == [t |-> "version", v |-> v]

\* the characters serde_json writes as escapes, of the model's alphabet
Quote == "\""
Backslash == "\\"
Newline == "\n"

RECURSIVE JsonEscape_quotes_only(_)
\* an escaping that leaves a backslash as it is
JsonEscape_quotes_only(s) ==
    IF s = << >> THEN << >>
    ELSE (CASE Head(s) = Quote -> <<Backslash, Quote>>
            [] Head(s) = Newline -> <<Backslash, "n">>
            [] OTHER -> <<Head(s)>>) \o JsonEscape_quotes_only(Tail(s))

RECURSIVE JsonEscape(_)
\* the string escaping of the serializer: a quote, a backslash and a control
\* character become two-character escapes
JsonEscape(s) ==
    IF s = << >> THEN << >>
    ELSE (CASE Head(s) = Quote -> <<Backslash, Quote>>
            [] Head(s) = Backslash -> <<Backslash, Backslash>>
            [] Head(s) = Newline -> <<Backslash, "n">>
            [] OTHER -> <<Head(s)>>) \o JsonEscape(Tail(s))

RECURSIVE JsonUnescape(_)
\* the parser's reading of the inside of a string literal
JsonUnescape(t) ==
    IF t = << >> THEN << >>
    ELSE IF Head(t) = Backslash /\ Len(t) >= 2
         THEN <<IF t[2] = "n" THEN Newline ELSE t[2]>>
                  \o JsonUnescape(SubSeq(t, 3, Len(t)))
         ELSE <<Head(t)>> \o JsonUnescape(Tail(t))

JsonString(s) == <<Quote>> \o JsonEscape(s) \o <<Quote>>
ParseJsonString(t) == JsonUnescape(SubSeq(t, 2, Len(t) - 1))

JsonNull == <<"n", "u", "l", "l">>

\* Option<String>: null or a string literal
JsonOption(o) == IF o.some THEN JsonString(o.v) ELSE JsonNull
ParseJsonOption(t) == IF t = JsonNull THEN None ELSE Some(ParseJsonString(t))

\* ImportRecord (state.rs 7-13): ref_name is written under the key "ref"
ImportToJson(im) ==
    [repo |-> JsonString(im.repo), ref |-> JsonOption(im.ref_name),
     commit |-> JsonString(im.commit)]
ImportFromJson(j) ==
    [repo |-> ParseJsonString(j.repo), ref_name |-> ParseJsonOption(j.ref),
     commit |-> ParseJsonString(j.commit)]

\* the fields of InstallRecord (state.rs 15-29) that are strings; sink is
\* the name of an agent, an identifier that needs no escape
StringFields == {"sink_path", "pack", "pack_file", "prefix", "sep", "installed_at"}

FieldToJson(field, v) ==
    CASE field \in StringFields -> JsonString(v)
      [] field = "sink" -> <<Quote, v, Quote>>
      [] field = "flatten" -> IF v THEN <<"true">> ELSE <<"false">>
      [] field = "installed_paths" -> [i \in 1..Len(v) |-> JsonString(v[i])]
      [] field = "imports" -> [i \in 1..Len(v) |-> ImportToJson(v[i])]

FieldFromJson(field, j) ==
    CASE field \in StringFields -> ParseJsonString(j)
      [] field = "sink" -> j[2]
      [] field = "flatten" -> j = <<"true">>
      [] field = "installed_paths" -> [i \in 1..Len(j) |-> ParseJsonString(j[i])]
      [] field = "imports" -> [i \in 1..Len(j) |-> ImportFromJson(j[i])]

\* one InstallRecord as a JSON object: its fields by key
RecordToJson(r) == [field \in DOMAIN r |-> FieldToJson(field, r[field])]
RecordFromJson(j) == [field \in DOMAIN j |-> FieldFromJson(field, j[field])]

RecordTok(r) == [t |-> "record", r |-> RecordToJson(r)]

\* serde_json::to_vec_pretty: an opening brace, the version, one element per
\* record, a closing brace
Serialize(state) ==
    <<OpenTok, VersionTok(state.version)>>
        \o [i \in 1..Len(state.installs) |-> RecordTok(state.installs[i])]
        \o <<CloseTok>>

\* serde_json::from_str succeeds only on a complete document
Parses(bytes) ==
    /\ Len(bytes) >= 3
    /\ bytes[1] = OpenTok
    /\ bytes[2].t = "version"
    /\ bytes[Len(bytes)] = CloseTok
    /\ \A i \in 3..(Len(bytes) - 1) : bytes[i].t = "record"

Deserialize(bytes) ==
    [version |-> bytes[2].v,
     installs |-> [i \in 1..(Len(bytes) - 3) |-> RecordFromJson(bytes[i + 2].r)]]

\* load_state_at: a missing file is the default state, an unparsable one an error
load_state_at(file) ==
    IF ~file.present THEN [err |-> "ok", state |-> DefaultState]
    ELSE IF Parses(file.bytes) THEN [err |-> "ok", state |-> Deserialize(file.bytes)]
    ELSE [err |-> "ParseError", state |-> DefaultState]

\* a position lookup that forgets to compare the pack
find_record_index_any_pack(state, sink_path, pack) ==
    LET first(hits) == IF hits = {} THEN 0
                       ELSE CHOOSE i \in hits : \A j \in hits : i <= j
    IN  first({i \in 1..Len(state.installs) : state.installs[i].sink_path = sink_path})

\* Option<usize> as 0 (None) or a 1-based index
find_record_index(state, sink_path, pack) ==
    LET first(hits) == IF hits = {} THEN 0
                       ELSE CHOOSE i \in hits : \A j \in hits : i <= j
    IN  first({i \in 1..Len(state.installs) :
                  /\ state.installs[i].sink_path = sink_path
                  /\ state.installs[i].pack = pack})

\* a lookup that forgets to compare the pack: any record of the sink will do
record_owned_path_any_pack(state, sink_path, pack, dest) ==
    \E i \in 1..Len(state.installs) :
        /\ state.installs[i].sink_path = sink_path
        /\ dest \in Range(state.installs[i].installed_paths)

record_owned_path(state, sink_path, pack, dest) ==
    LET lists(i) == i # 0 /\ dest \in Range(state.installs[i].installed_paths)
    IN  lists(find_record_index(state, sink_path, pack))

----------------------------------------------------------------------------
(* util.rs *)

flatten_id(id, sep) == Replace(id, "/", sep)

ensure_child_path(root, candidate) == PathStartsWith(candidate, root)

----------------------------------------------------------------------------
(* patterns.rs, on top of the globset crate *)

StarStar == <<"*", "*">>

ContainsStarStar(seg) ==
    \E i \in 1..(Len(seg) - 1) : seg[i] = "*" /\ seg[i + 1] = "*"

\* an is_valid_pattern without the check of `**` inside a segment
is_valid_pattern_any_stars(pattern) ==
    /\ pattern # EmptyStr
    /\ \A seg \in Range(Split(pattern, "/")) : seg # EmptyStr

is_valid_pattern(pattern) ==
    /\ pattern # EmptyStr
    /\ \A seg \in Range(Split(pattern, "/")) :
          /\ seg # EmptyStr
          /\ ~(ContainsStarStar(seg) /\ seg # StarStar)

\* globset tokens: a literal character, `*` inside a segment, and the three
\* positions of a `**` segment
LitTok(c) == [k |-> "lit", c |-> c]
ZeroOrMore == [k |-> "star", c |-> "*"]
RecursivePrefix == [k |-> "prefix", c |-> "*"]
RecursiveSuffix == [k |-> "suffix", c |-> "*"]
RecursiveZeroOrMore == [k |-> "zom", c |-> "*"]

SegmentTokens(seg) ==
    [i \in 1..Len(seg) |-> IF seg[i] = "*" THEN ZeroOrMore ELSE LitTok(seg[i])]

RECURSIVE GlobTokens(_, _, _)
\* globset's parser on a valid pattern: a `**` segment swallows the
\* separators around it and merges with a `**` token right before it
GlobTokens(segs, i, acc) ==
    IF i > Len(segs) THEN acc
    ELSE IF segs[i] = StarStar
         THEN IF acc = << >> THEN GlobTokens(segs, i + 1, <<RecursivePrefix>>)
              ELSE LET last == acc[Len(acc)]
                       base == SubSeq(acc, 1, Len(acc) - 1)
                       tok  == IF last = RecursivePrefix THEN RecursivePrefix
                               ELSE IF last = RecursiveSuffix THEN RecursiveSuffix
                               ELSE IF i = Len(segs) THEN RecursiveSuffix
                               ELSE RecursiveZeroOrMore
                   IN  GlobTokens(segs, i + 1, Append(base, tok))
    ELSE GlobTokens(segs, i + 1,
                    acc \o SegmentTokens(segs[i])
                        \o (IF i < Len(segs) THEN <<LitTok("/")>> ELSE << >>))

build_glob(pattern) == GlobTokens(Split(pattern, "/"), 1, << >>)

Drop(t, k) == SubSeq(t, k + 1, Len(t))

RECURSIVE TokensMatch(_, _)
\* the anchored regex globset compiles the tokens to (literal_separator on):
\* `*` is [^/]*, a leading `**/` is (?:/?|.*/), a trailing `/**` is /.*,
\* an inner `/**/` is (?:/|/.*/)
TokensMatch(toks, t) ==
    IF toks = << >> THEN t = << >>
    ELSE LET tok == Head(toks)
             rest == Tail(toks)
         IN  CASE tok.k = "lit" ->
                    /\ t # << >>
                    /\ Head(t) = tok.c
                    /\ TokensMatch(rest, Tail(t))
               [] tok.k = "star" ->
                    \E k \in 0..Len(t) :
                        /\ \A j \in 1..k : t[j] # "/"
                        /\ TokensMatch(rest, Drop(t, k))
               [] tok.k = "prefix" ->
                    \/ TokensMatch(rest, t)
                    \/ \E k \in 1..Len(t) : t[k] = "/" /\ TokensMatch(rest, Drop(t, k))
               [] tok.k = "suffix" ->
                    /\ t # << >>
                    /\ Head(t) = "/"
                    /\ \E k \in 1..Len(t) : TokensMatch(rest, Drop(t, k))
               [] tok.k = "zom" ->
                    /\ t # << >>
                    /\ Head(t) = "/"
                    /\ \E k \in 1..Len(t) : t[k] = "/" /\ TokensMatch(rest, Drop(t, k))

\* GlobMatcher::is_match; a glob that is `**` alone matches everything
GlobIsMatch(toks, t) ==
    IF toks = <<RecursivePrefix>> THEN TRUE ELSE TokensMatch(toks, t)

RECURSIVE TrimTrailingStarStar(_)
\* str::trim_end_matches("/**")
TrimTrailingStarStar(pattern) ==
    IF EndsWith(pattern, <<"/", "*", "*">>)
    THEN TrimTrailingStarStar(SubSeq(pattern, 1, Len(pattern) - 3))
    ELSE pattern

\* a build_matcher without the glob of the pattern cut before its "/**"
PatternGlobs_primary_only(pattern) == <<build_glob(pattern)>>

\* the globs build_matcher compiles for one pattern: the pattern itself and,
\* for a pattern ending in "/**", the pattern without that ending
PatternGlobs(pattern) ==
    LET prefix == TrimTrailingStarStar(pattern)
    IN  IF EndsWith(pattern, <<"/", "*", "*">>) /\ prefix # EmptyStr
        THEN <<build_glob(pattern), build_glob(prefix)>>
        ELSE <<build_glob(pattern)>>

\* PatternMatcher::is_match
PatternMatcherIsMatch(pattern, text) ==
    \E g \in Range(PatternGlobs(pattern)) : GlobIsMatch(g, text)

match_pattern(pattern, text) ==
    is_valid_pattern(pattern) /\ PatternMatcherIsMatch(pattern, text)

Least(set) == CHOOSE i \in set : \A j \in set : i <= j

\* PatternSet::new: the error names the first invalid pattern of the list
PatternSetNew(patterns) ==
    LET first(bad) ==
            IF bad = {} THEN [err |-> "ok", pattern |-> EmptyStr]
            ELSE [err |-> "InvalidPattern", pattern |-> patterns[Least(bad)]]
    IN  first({i \in 1..Len(patterns) : ~is_valid_pattern(patterns[i])})

\* PatternSet::new fails on the first invalid pattern
PatternSetValid(patterns) == \A i \in 1..Len(patterns) : is_valid_pattern(patterns[i])

\* a GlobSet that holds only the first glob of every pattern
PatternSetIsMatch_primary_only(patterns, text) ==
    \E i \in 1..Len(patterns) : GlobIsMatch(PatternGlobs(patterns[i])[1], text)

\* PatternSet::is_match: the GlobSet of every glob of every pattern
PatternSetIsMatch(patterns, text) ==
    \E i \in 1..Len(patterns) :
        \E g \in Range(PatternGlobs(patterns[i])) : GlobIsMatch(g, text)

\* PatternSet::match_count_per_pattern
match_count_per_pattern(patterns, texts) ==
    [i \in 1..Len(patterns) |->
        Cardinality({j \in 1..Len(texts) : PatternMatcherIsMatch(patterns[i], texts[j])})]

----------------------------------------------------------------------------
(* pack.rs *)

DefaultSep == <<"_", "_">>

\* str::trim().is_empty() over the model's alphabet, which has no whitespace
IsBlank(s) == s = EmptyStr

validate_pack(m) ==
    IF IsBlank(m.name) THEN "InvalidManifest"
    ELSE IF m.include = << >> /\ m.imports = << >> THEN "InvalidManifest"
    ELSE IF \E i \in 1..Len(m.imports) :
                IsBlank(m.imports[i].repo) \/ m.imports[i].include = << >>
         THEN "InvalidManifest"
    ELSE "ok"

\* load_pack: the manifest with the install defaults filled in
load_pack(m) ==
    [err |-> validate_pack(m),
     pack |-> [name |-> m.name,
               include |-> m.include,
               exclude |-> m.exclude,
               imports |-> m.imports,
               install_prefix |-> IF m.prefix.some THEN m.prefix.v ELSE m.name,
               install_sep |-> IF m.sep.some THEN m.sep.v ELSE DefaultSep]]

----------------------------------------------------------------------------
(* discover.rs: a tree is the sequence of directories holding a SKILL.md,
   relative to the root, in the order the walk meets them; the root itself
   is the empty string *)

IsProperAncestor(a, d) ==
    LET an == Split(a, "/")
        dn == Split(d, "/")
    IN  a # EmptyStr /\ Len(an) < Len(dn) /\ SubSeq(dn, 1, Len(an)) = an

\* a discover_skills that returns every directory with a SKILL.md
discover_skills_all(walk, is_local) ==
    IF is_local /\ EmptyStr \in Range(walk)
    THEN [err |-> "InvalidSkillLayout", skills |-> << >>]
    ELSE [err |-> "ok", skills |-> SelectSeq(walk, LAMBDA d : d # EmptyStr)]

\* a discover_skills that refuses a SKILL.md in the root of a remote
\* repository as well
discover_skills_root_always_invalid(walk, is_local) ==
    LET skill_dirs == SelectSeq(walk, LAMBDA d : d # EmptyStr)
        non_leaf == {a \in Range(skill_dirs) :
                        \E d \in Range(skill_dirs) : IsProperAncestor(a, d)}
    IN  IF EmptyStr \in Range(walk)
        THEN [err |-> "InvalidSkillLayout", skills |-> << >>]
        ELSE [err |-> "ok",
              skills |-> SelectSeq(skill_dirs, LAMBDA d : d \notin non_leaf)]

discover_skills(walk, is_local) ==
    LET skill_dirs == SelectSeq(walk, LAMBDA d : d # EmptyStr)
        non_leaf == {a \in Range(skill_dirs) :
                        \E d \in Range(skill_dirs) : IsProperAncestor(a, d)}
    IN  IF is_local /\ EmptyStr \in Range(walk)
        THEN [err |-> "InvalidSkillLayout", skills |-> << >>]
        ELSE [err |-> "ok",
              skills |-> SelectSeq(skill_dirs, LAMBDA d : d \notin non_leaf)]

----------------------------------------------------------------------------
(* resolve.rs *)

Ids(skills) == [i \in 1..Len(skills) |-> skills[i].id]

RECURSIVE InsertById(_, _)
InsertById(x, sorted) ==
    IF sorted = << >> THEN <<x>>
    ELSE IF StrLeq(x.id, Head(sorted).id) THEN <<x>> \o sorted
    ELSE <<Head(sorted)>> \o InsertById(x, Tail(sorted))

RECURSIVE SortById(_)
\* sort_by(|a, b| a.id.cmp(&b.id)): stable, so entries with equal ids keep
\* their order
SortById(seq) ==
    IF seq = << >> THEN << >>
    ELSE InsertById(Head(seq), SortById(Tail(seq)))

LocalSrc == [remote |-> FALSE, repo |-> EmptyStr]
RemoteSrc(repo) == [remote |-> TRUE, repo |-> repo]

\* a select_included that only fails when the whole list matches nothing
select_included_per_set(ids, include, src) ==
    LET tagged(chosen) ==
            SortById([i \in 1..Len(chosen) |-> [id |-> chosen[i], src |-> src]])
        counted(zero) ==
            IF zero = 1..Len(include) /\ zero # {}
            THEN [err |-> "PatternMatchedNothing", pattern |-> include[Least(zero)],
                  skills |-> << >>]
            ELSE [err |-> "ok", pattern |-> EmptyStr,
                  skills |-> tagged(SelectSeq(ids, LAMBDA id : PatternSetIsMatch(include, id)))]
        zeros(counts) == counted({i \in 1..Len(include) : counts[i] = 0})
        built(matcher) ==
            IF matcher.err # "ok"
            THEN [err |-> matcher.err, pattern |-> matcher.pattern, skills |-> << >>]
            ELSE zeros(match_count_per_pattern(include, ids))
    IN  built(PatternSetNew(include))

\* select_included over the discovered ids; src tags the provenance the
\* caller attaches right after
select_included(ids, include, src) ==
    LET tagged(chosen) ==
            SortById([i \in 1..Len(chosen) |-> [id |-> chosen[i], src |-> src]])
        counted(zero) ==
            IF zero # {}
            THEN [err |-> "PatternMatchedNothing", pattern |-> include[Least(zero)],
                  skills |-> << >>]
            ELSE [err |-> "ok", pattern |-> EmptyStr,
                  skills |-> tagged(SelectSeq(ids, LAMBDA id : PatternSetIsMatch(include, id)))]
        zeros(counts) == counted({i \in 1..Len(include) : counts[i] = 0})
        built(matcher) ==
            IF matcher.err # "ok"
            THEN [err |-> matcher.err, pattern |-> matcher.pattern, skills |-> << >>]
            ELSE zeros(match_count_per_pattern(include, ids))
    IN  built(PatternSetNew(include))

\* an apply_excludes that requires every exclude pattern to match a skill
apply_excludes_must_match(skills, exclude) ==
    LET filtered(zero) ==
            IF zero # {}
            THEN [err |-> "PatternMatchedNothing", pattern |-> exclude[Least(zero)],
                  skills |-> << >>]
            ELSE [err |-> "ok", pattern |-> EmptyStr,
                  skills |-> SortById(SelectSeq(skills,
                                 LAMBDA sk : ~PatternSetIsMatch(exclude, sk.id)))]
        built(matcher) ==
            IF matcher.err # "ok"
            THEN [err |-> matcher.err, pattern |-> matcher.pattern, skills |-> << >>]
            ELSE filtered({i \in 1..Len(exclude) :
                              \A k \in 1..Len(skills) :
                                  ~match_pattern(exclude[i], skills[k].id)})
    IN  IF exclude = << >> THEN [err |-> "ok", pattern |-> EmptyStr, skills |-> skills]
        ELSE built(PatternSetNew(exclude))

\* an apply_excludes that validates the patterns and filters nothing
apply_excludes_keeps(skills, exclude) ==
    LET built(matcher) ==
            IF matcher.err # "ok"
            THEN [err |-> matcher.err, pattern |-> matcher.pattern, skills |-> << >>]
            ELSE [err |-> "ok", pattern |-> EmptyStr, skills |-> SortById(skills)]
    IN  IF exclude = << >> THEN [err |-> "ok", pattern |-> EmptyStr, skills |-> skills]
        ELSE built(PatternSetNew(exclude))

apply_excludes(skills, exclude) ==
    LET built(matcher) ==
            IF matcher.err # "ok"
            THEN [err |-> matcher.err, pattern |-> matcher.pattern, skills |-> << >>]
            ELSE [err |-> "ok", pattern |-> EmptyStr,
                  skills |-> SortById(SelectSeq(skills,
                                 LAMBDA sk : ~PatternSetIsMatch(exclude, sk.id)))]
    IN  IF exclude = << >> THEN [err |-> "ok", pattern |-> EmptyStr, skills |-> skills]
        ELSE built(PatternSetNew(exclude))

\* resolve_import; the repository cache hands back the checked-out tree
resolve_import(import) ==
    LET excluded(selected) ==
            IF selected.err # "ok" THEN selected
            ELSE apply_excludes(selected.skills, import.exclude)
        included(found) ==
            IF found.err # "ok"
            THEN [err |-> found.err, pattern |-> EmptyStr, skills |-> << >>]
            ELSE excluded(select_included(found.skills, import.include,
                                          RemoteSrc(import.repo)))
    IN  included(discover_skills(import.tree, FALSE))

RECURSIVE ResolveImports(_, _)
\* the import loop of resolve_pack: the first failing import ends it
ResolveImports(imports, acc) ==
    IF imports = << >> THEN [err |-> "ok", pattern |-> EmptyStr, results |-> acc]
    ELSE LET next(r) == IF r.err # "ok"
                        THEN [err |-> r.err, pattern |-> r.pattern, results |-> acc]
                        ELSE ResolveImports(Tail(imports), Append(acc, r.skills))
         IN  next(resolve_import(Head(imports)))

RECURSIVE Concat_dedup(_)
\* a union that keeps one entry per id
Concat_dedup(seqs) ==
    IF seqs = << >> THEN << >>
    ELSE LET rest(tail) ==
                 SelectSeq(Head(seqs), LAMBDA sk : \A i \in 1..Len(tail) : tail[i].id # sk.id)
                 \o tail
         IN  rest(Concat_dedup(Tail(seqs)))

RECURSIVE Concat(_)
Concat(seqs) == IF seqs = << >> THEN << >> ELSE Head(seqs) \o Concat(Tail(seqs))

EmptyPack ==
    [name |-> EmptyStr, include |-> << >>, exclude |-> << >>, imports |-> << >>,
     install_prefix |-> EmptyStr, install_sep |-> EmptyStr]

NoResolved ==
    [err |-> "none", pattern |-> EmptyStr, pack |-> EmptyPack, final_skills |-> << >>]

\* resolve_pack over a repository: its skills tree and its pack manifest
resolve_pack(repo) ==
    LET fail(pack, e, pat) ==
            [err |-> e, pattern |-> pat, pack |-> pack, final_skills |-> << >>]
        excluded(pack, final) ==
            IF final.err # "ok" THEN fail(pack, final.err, final.pattern)
            ELSE [err |-> "ok", pattern |-> EmptyStr, pack |-> pack,
                  final_skills |-> final.skills]
        imported(pack, local, imports) ==
            IF imports.err # "ok" THEN fail(pack, imports.err, imports.pattern)
            ELSE excluded(pack, apply_excludes(local.skills \o Concat(imports.results),
                                               pack.exclude))
        selected(pack, local) ==
            IF local.err # "ok" THEN fail(pack, local.err, local.pattern)
            ELSE imported(pack, local, ResolveImports(pack.imports, << >>))
        discovered(pack, found) ==
            IF found.err # "ok" THEN fail(pack, found.err, EmptyStr)
            ELSE selected(pack, select_included(found.skills, pack.include, LocalSrc))
        loaded(l) ==
            IF l.err # "ok" THEN fail(l.pack, l.err, EmptyStr)
            ELSE discovered(l.pack, discover_skills(repo.tree, TRUE))
    IN  loaded(load_pack(repo.manifest))

\* install.rs install_name
install_name(prefix, sep, id) == prefix \o sep \o flatten_id(id, sep)

RECURSIVE CollisionScan_per_source(_, _, _, _, _)
\* a scan that only compares the names of skills of one source
CollisionScan_per_source(skills, k, seen, prefix, sep) ==
    IF k > Len(skills) THEN [err |-> "ok", name |-> EmptyStr]
    ELSE LET insert(name) ==
                 IF <<name, skills[k].src>> \in seen
                 THEN [err |-> "NameCollision", name |-> name]
                 ELSE CollisionScan_per_source(skills, k + 1,
                                               seen \cup {<<name, skills[k].src>>},
                                               prefix, sep)
         IN  insert(install_name(prefix, sep, skills[k].id))

RECURSIVE CollisionScan(_, _, _, _, _)
\* the loop of detect_collisions: the first install name that is already in
\* the set of names seen ends it
CollisionScan(skills, k, seen, prefix, sep) ==
    IF k > Len(skills) THEN [err |-> "ok", name |-> EmptyStr]
    ELSE LET insert(name) ==
                 IF name \in seen THEN [err |-> "NameCollision", name |-> name]
                 ELSE CollisionScan(skills, k + 1, seen \cup {name}, prefix, sep)
         IN  insert(install_name(prefix, sep, skills[k].id))

\* detect_collisions: TRUE when two entries get the same install name
detect_collisions(skills, prefix, sep) ==
    CollisionScan(skills, 1, {}, prefix, sep).err # "ok"

----------------------------------------------------------------------------
(* install.rs *)

build_install_paths(skills, sink_path, prefix, sep) ==
    SortStrs([i \in 1..Len(skills) |->
                 PathJoin(sink_path, install_name(prefix, sep, skills[i].id))])

\* a stale loop that removes nothing
RemoveStale_keeps(f, olds, new_set, sink_path) == [err |-> "ok", fs |-> f]

RECURSIVE RemoveStale(_, _, _, _)
\* the loop over the prior record's paths (install.rs 36-45)
RemoveStale(f, olds, new_set, sink_path) ==
    IF olds = << >> THEN [err |-> "ok", fs |-> f]
    ELSE LET old == Head(olds)
         IN  IF old \in new_set THEN RemoveStale(f, Tail(olds), new_set, sink_path)
             ELSE IF ~ensure_child_path(sink_path, old)
                  THEN [err |-> "OutsideSink", fs |-> f]
             ELSE RemoveStale(IF Exists(f, old) THEN RemoveDirAll(f, old) ELSE f,
                              Tail(olds), new_set, sink_path)

\* the content a failed copy leaves behind
PartialCopy(pack, id) == [kind |-> "partial", by |-> pack, id |-> id]

RECURSIVE CopySkills(_, _, _, _, _, _, _)
\* the loop over final_skills (install.rs 48-68); the copy of the skill at
\* position fault (0: none) fails with an I/O error after creating dest
CopySkills(f, skills, k, state, pack, sink_path, fault) ==
    IF k > Len(skills) THEN [err |-> "ok", fs |-> f]
    ELSE LET copy(cleared, dest) ==
                 IF k = fault
                 THEN [err |-> "Io",
                       fs |-> copy_skill_dir(cleared, PartialCopy(pack.name, skills[k].id),
                                             dest)]
                 ELSE CopySkills(copy_skill_dir(cleared, SkillCopy(pack.name, skills[k].id),
                                                dest),
                                 skills, k + 1, state, pack, sink_path, fault)
             one(dest, exists) ==
                 IF exists /\ ~record_owned_path(state, sink_path, pack.name, dest)
                 THEN [err |-> "DestinationNotOwned", fs |-> f]
                 ELSE IF exists /\ ~ensure_child_path(sink_path, dest)
                 THEN [err |-> "OutsideSink", fs |-> f]
                 ELSE copy(IF exists THEN RemoveDirAll(f, dest) ELSE f, dest)
             at(dest) == one(dest, Exists(f, dest))
         IN  at(PathJoin(sink_path,
                         install_name(pack.install_prefix, pack.install_sep, skills[k].id)))

NoRecord ==
    [sink |-> "", sink_path |-> EmptyStr, pack |-> EmptyStr,
     prefix |-> EmptyStr, sep |-> EmptyStr, installed_paths |-> << >>]

\* install_pack: the file system and the StateFile it leaves, the error it
\* returns ("ok": none) and the record it returns
install_pack(f0, state, rp, sink, sink_path, fault) ==
    LET pack == rp.pack
        failed(r) == [err |-> r.err, fs |-> r.fs, state |-> state, record |-> NoRecord]
        recorded(f, index, record) ==
            [err |-> "ok", fs |-> f, record |-> record,
             state |-> [state EXCEPT !.installs =
                           IF index # 0 THEN [state.installs EXCEPT ![index] = record]
                           ELSE Append(state.installs, record)]]
        copied(r, index, new_paths) ==
            IF r.err # "ok" THEN failed(r)
            ELSE recorded(r.fs, index,
                          [sink |-> sink,
                           sink_path |-> sink_path,
                           pack |-> pack.name,
                           prefix |-> pack.install_prefix,
                           sep |-> pack.install_sep,
                           installed_paths |-> new_paths])
        stale_removed(r, index, new_paths) ==
            IF r.err # "ok" THEN failed(r)
            ELSE copied(CopySkills(r.fs, rp.final_skills, 1, state, pack, sink_path, fault),
                        index, new_paths)
        reconcile(f1, index, new_paths) ==
            stale_removed(IF index = 0 THEN [err |-> "ok", fs |-> f1]
                          ELSE RemoveStale(f1, state.installs[index].installed_paths,
                                           Range(new_paths), sink_path),
                          index, new_paths)
    IN  reconcile(CreateDirAll(f0, sink_path),
                  find_record_index(state, sink_path, pack.name),
                  build_install_paths(rp.final_skills, sink_path,
                                      pack.install_prefix, pack.install_sep))

\* a removal that always drops the first element
RemoveAt_first(seq, i) == Tail(seq)

RemoveAt(seq, i) == SubSeq(seq, 1, i - 1) \o SubSeq(seq, i + 1, Len(seq))

RECURSIVE RemoveRecorded(_, _, _)
\* the loop over the removed record's paths (install.rs 108-115)
RemoveRecorded(f, paths, sink_path) ==
    IF paths = << >> THEN [err |-> "ok", fs |-> f]
    ELSE LET dest == Head(paths)
         IN  IF ~ensure_child_path(sink_path, dest)
             THEN [err |-> "OutsideSink", fs |-> f]
             ELSE RemoveRecorded(IF Exists(f, dest) THEN RemoveDirAll(f, dest) ELSE f,
                                 Tail(paths), sink_path)

\* an uninstall_pack that reports success when the pair has no record
uninstall_pack_missing_ok(f0, state, sink_path, pack) ==
    LET paths_removed(r, shrunk, record) ==
            IF r.err # "ok"
            THEN [err |-> r.err, fs |-> r.fs, state |-> shrunk, record |-> NoRecord]
            ELSE [err |-> "ok", fs |-> r.fs, state |-> shrunk, record |-> record]
        found(index) ==
            IF index = 0
            THEN [err |-> "ok", fs |-> f0, state |-> state, record |-> NoRecord]
            ELSE paths_removed(
                     RemoveRecorded(f0, state.installs[index].installed_paths, sink_path),
                     [state EXCEPT !.installs = RemoveAt(state.installs, index)],
                     state.installs[index])
    IN  found(find_record_index(state, sink_path, pack))

\* uninstall_pack: the record leaves the StateFile before its paths are removed
uninstall_pack(f0, state, sink_path, pack) ==
    LET paths_removed(r, shrunk, record) ==
            IF r.err # "ok"
            THEN [err |-> r.err, fs |-> r.fs, state |-> shrunk, record |-> NoRecord]
            ELSE [err |-> "ok", fs |-> r.fs, state |-> shrunk, record |-> record]
        found(index) ==
            IF index = 0
            THEN [err |-> "PackNotInstalled", fs |-> f0, state |-> state,
                  record |-> NoRecord]
            ELSE paths_removed(
                     RemoveRecorded(f0, state.installs[index].installed_paths, sink_path),
                     [state EXCEPT !.installs = RemoveAt(state.installs, index)],
                     state.installs[index])
    IN  found(find_record_index(state, sink_path, pack))

----------------------------------------------------------------------------
(* config.rs: the sinks of the agents *)

SinkS == <<"/", "s">>
SinkT == <<"/", "t">>

Agents == {"codex", "claude"}

\* resolve_sink_path without --path: the configured sink of the agent
resolve_sink_path(agent) == IF agent = "codex" THEN SinkS ELSE SinkT

----------------------------------------------------------------------------
(* cli.rs *)

SetSize(a) == Cardinality(a)

MkRes(op, err, pack, sink_path, old_paths, paths) ==
    [op |-> op, err |-> err, pack |-> pack, sink_path |-> sink_path,
     old_paths |-> old_paths, paths |-> paths,
     added |-> SetSize(Range(paths) \ Range(old_paths)),
     updated |-> SetSize(Range(paths) \cap Range(old_paths)),
     removed |-> SetSize(Range(old_paths) \ Range(paths))]

PlainRes(op, err, pack) == MkRes(op, err, pack, EmptyStr, << >>, << >>)

\* the checks of install_cmd without detect_collisions
install_cmd_checks_no_collisions(repo, agents, file) ==
    LET checked(rp, loaded) ==
            [err |-> IF agents = << >> THEN "NoAgents"
                     ELSE IF rp.err # "ok" THEN rp.err
                     ELSE loaded.err,
             resolved |-> rp,
             state |-> loaded.state]
    IN  checked(resolve_pack(repo), load_state_at(file))

\* install_cmd up to the target loop (cli.rs 400-413): agent selection,
\* resolve_pack, detect_collisions, load_state, in that order
install_cmd_checks(repo, agents, file) ==
    LET checked(rp, loaded) ==
            [err |-> IF agents = << >> THEN "NoAgents"
                     ELSE IF rp.err # "ok" THEN rp.err
                     ELSE IF detect_collisions(rp.final_skills, rp.pack.install_prefix,
                                               rp.pack.install_sep)
                     THEN "NameCollision"
                     ELSE loaded.err,
             resolved |-> rp,
             state |-> loaded.state]
    IN  checked(resolve_pack(repo), load_state_at(file))

\* old_paths that never finds the prior record
OldPaths_none(state, sink_path, pack) == << >>

\* old_paths of install_cmd (cli.rs 416-424)
OldPaths(state, sink_path, pack) ==
    LET paths(i) == IF i = 0 THEN << >> ELSE state.installs[i].installed_paths
    IN  paths(find_record_index(state, sink_path, pack))

\* write_state: the state file becomes the serialized state in one step
write_state(state) == File(Serialize(state))

\* a target loop that persists the state whether or not install_pack succeeded
install_target_writes_always(f, file, state, rp, agent, fault) ==
    LET done(sink_path, old_paths, r) ==
            [err |-> r.err,
             fs |-> r.fs,
             state |-> r.state,
             file |-> write_state(r.state),
             view |-> MkRes("install_pack", r.err, rp.pack.name, sink_path, old_paths,
                            r.record.installed_paths)]
        target(sink_path) ==
            done(sink_path, OldPaths(state, sink_path, rp.pack.name),
                 install_pack(f, state, rp, agent, sink_path, fault))
    IN  target(resolve_sink_path(agent))

\* one pass of the target loop of install_cmd (cli.rs 414-453): install_pack,
\* then write_state when it succeeded, then the view with its counts (when
\* install_pack fails no view is printed: only its err is meaningful then)
install_target(f, file, state, rp, agent, fault) ==
    LET done(sink_path, old_paths, r) ==
            [err |-> r.err,
             fs |-> r.fs,
             state |-> r.state,
             file |-> IF r.err = "ok" THEN write_state(r.state) ELSE file,
             view |-> MkRes("install_pack", r.err, rp.pack.name, sink_path, old_paths,
                            r.record.installed_paths)]
        target(sink_path) ==
            done(sink_path, OldPaths(state, sink_path, rp.pack.name),
                 install_pack(f, state, rp, agent, sink_path, fault))
    IN  target(resolve_sink_path(agent))

\* a target loop that persists the state whether or not uninstall_pack succeeded
uninstall_target_writes_always(f, file, state, pack, agent) ==
    LET done(sink_path, r) ==
            [err |-> r.err,
             fs |-> r.fs,
             state |-> r.state,
             file |-> write_state(r.state),
             view |-> MkRes("uninstall_pack", r.err, pack, sink_path,
                            r.record.installed_paths, << >>)]
        target(sink_path) == done(sink_path, uninstall_pack(f, state, sink_path, pack))
    IN  target(resolve_sink_path(agent))

\* one pass of the target loop of uninstall_cmd (cli.rs 475-487)
uninstall_target(f, file, state, pack, agent) ==
    LET done(sink_path, r) ==
            [err |-> r.err,
             fs |-> r.fs,
             state |-> r.state,
             file |-> IF r.err = "ok" THEN write_state(r.state) ELSE file,
             view |-> MkRes("uninstall_pack", r.err, pack, sink_path,
                            r.record.installed_paths, << >>)]
        target(sink_path) == done(sink_path, uninstall_pack(f, state, sink_path, pack))
    IN  target(resolve_sink_path(agent))

NoRepo == [tree |-> << >>, manifest |-> [name |-> EmptyStr]]
NoCmd == [repo |-> NoRepo, agents |-> << >>, file |-> NoFile]

InstallCmdBegin(repo, agents) ==
    /\ pc = "idle"
    /\ LET begin(c) ==
               /\ res' = PlainRes("install_cmd", c.err, c.resolved.pack.name)
               /\ IF c.err = "ok"
                  THEN /\ pc' = "install"
                       /\ resolved' = c.resolved
                       /\ pending' = agents
                       /\ mem' = c.state
                  ELSE UNCHANGED <<pc, resolved, pending, mem>>
       IN  begin(install_cmd_checks(repo, agents, stateFile))
    /\ cmd' = [repo |-> repo, agents |-> agents, file |-> stateFile]
    /\ UNCHANGED <<arg, ret, procs, fs, stateFile, packName, tmpFile, wpc, wdata, durable>>

InstallTarget(fault) ==
    /\ pc = "install"
    /\ pending # << >>
    /\ LET step(t, more) ==
               /\ fs' = t.fs
               /\ stateFile' = t.file
               /\ res' = t.view
               /\ pending' = IF more THEN Tail(pending) ELSE << >>
               /\ pc' = IF more THEN "install" ELSE "idle"
               /\ mem' = IF more THEN t.state ELSE DefaultState
               /\ resolved' = IF more THEN resolved ELSE NoResolved
           next(t) == step(t, t.err = "ok" /\ Tail(pending) # << >>)
       IN  next(install_target(fs, stateFile, mem, resolved, Head(pending), fault))
    /\ UNCHANGED <<arg, ret, procs, packName, tmpFile, wpc, wdata, durable, cmd>>

UninstallCmdBegin(name, agents) ==
    /\ pc = "idle"
    /\ LET begin(loaded, err) ==
               /\ res' = PlainRes("uninstall_cmd", err, name)
               /\ IF err = "ok"
                  THEN /\ pc' = "uninstall"
                       /\ packName' = name
                       /\ pending' = agents
                       /\ mem' = loaded.state
                  ELSE UNCHANGED <<pc, packName, pending, mem>>
           load(loaded) == begin(loaded, IF agents = << >> THEN "NoAgents" ELSE loaded.err)
       IN  load(load_state_at(stateFile))
    /\ cmd' = [repo |-> NoRepo, agents |-> agents, file |-> stateFile]
    /\ UNCHANGED <<arg, ret, procs, fs, stateFile, resolved, tmpFile, wpc, wdata, durable>>

UninstallTarget ==
    /\ pc = "uninstall"
    /\ pending # << >>
    /\ LET step(t, more) ==
               /\ fs' = t.fs
               /\ stateFile' = t.file
               /\ res' = t.view
               /\ pending' = IF more THEN Tail(pending) ELSE << >>
               /\ pc' = IF more THEN "uninstall" ELSE "idle"
               /\ mem' = IF more THEN t.state ELSE DefaultState
               /\ packName' = IF more THEN packName ELSE EmptyStr
           next(t) == step(t, t.err = "ok" /\ Tail(pending) # << >>)
       IN  next(uninstall_target(fs, stateFile, mem, packName, Head(pending)))
    /\ UNCHANGED <<arg, ret, procs, resolved, tmpFile, wpc, wdata, durable, cmd>>

----------------------------------------------------------------------------
(* The inputs of the commands *)

MaxUserDirs == 1

NameP == <<"p">>
NameQ == <<"q">>
IdA == <<"a">>
IdB == <<"b">>
PatStar == <<"*">>

Manifest(name, include, exclude, prefix) ==
    [name |-> name, include |-> include, exclude |-> exclude, imports |-> << >>,
     prefix |-> prefix, sep |-> None]

Repo(tree, manifest) == [tree |-> tree, manifest |-> manifest]

TreeAB == <<IdA, IdB>>
\* "a/b" and "a__b": distinct skills with one install name under sep "__"
TreeCollide == << <<"a", "/", "b">>, <<"a", "_", "_", "b">> >>

\* pack p with the default prefix (its name); pack q configured with the
\* same prefix, so that both packs aim at the same destinations
GoodRepos ==
    { Repo(TreeAB, Manifest(NameP, <<IdA>>, << >>, None)),
      Repo(TreeAB, Manifest(NameP, <<IdB>>, << >>, None)),
      Repo(TreeAB, Manifest(NameP, <<PatStar>>, << >>, None)),
      Repo(TreeAB, Manifest(NameP, <<PatStar>>, <<PatStar>>, None)),
      Repo(TreeAB, Manifest(NameQ, <<IdA>>, << >>, Some(NameP))),
      Repo(TreeAB, Manifest(NameQ, <<IdB>>, << >>, Some(NameP))) }

BadRepos ==
    { \* invalid manifest: no include and no imports
      Repo(TreeAB, Manifest(NameP, << >>, << >>, None)),
      \* invalid include pattern "**a"
      Repo(TreeAB, Manifest(NameP, <<IdA, <<"*", "*", "a">>>>, << >>, None)),
      \* invalid exclude pattern "a//b"
      Repo(TreeAB, Manifest(NameP, <<IdA>>, << <<"a", "/", "/", "b">> >>, None)),
      \* include pattern "o" matches no skill
      Repo(TreeAB, Manifest(NameP, <<IdA, <<"o">>>>, << >>, None)),
      \* "**" selects both skills of TreeCollide
      Repo(TreeCollide, Manifest(NameP, << <<"*", "*">> >>, << >>, None)) }

Repos == GoodRepos \cup BadRepos

\* collect_agents keeps the order codex, claude
AgentSeqs == { << >>, <<"codex">>, <<"claude">>, <<"codex", "claude">> }

OneAgent == { << >>, <<"codex">> }

PackNames == {NameP, NameQ}

\* where the user may have put directories of their own before the first command
UserSpots(sinks) ==
    { PathJoin(sink, install_name(NameP, DefaultSep, id)) :
          sink \in sinks, id \in {IdA, IdB} }

RECURSIVE WithUserDirs(_, _)
WithUserDirs(f, spots) ==
    IF spots = {} THEN f
    ELSE LET d == CHOOSE x \in spots : TRUE
         IN  WithUserDirs(copy_skill_dir(f, UserContent, d), spots \ {d})

EmptyFs == [d \in {} |-> PlainDir]

NoDurable == [target |-> NoFile, temp |-> NoFile, renamed |-> FALSE]

InitWith(sinks) ==
    /\ \E spots \in SUBSET UserSpots(sinks) :
          /\ Cardinality(spots) <= MaxUserDirs
          /\ fs = WithUserDirs(EmptyFs, spots)
    /\ stateFile = NoFile
    /\ pc = "idle"
    /\ resolved = NoResolved
    /\ packName = EmptyStr
    /\ pending = << >>
    /\ mem = DefaultState
    /\ res = PlainRes("init", "ok", EmptyStr)
    /\ tmpFile = NoFile
    /\ wpc = "idle"
    /\ wdata = << >>
    /\ durable = NoDurable
    /\ cmd = NoCmd
    /\ arg = NoArg
    /\ ret = NoRet
    /\ procs = NoProcs

(* Spec: the commands of two packs against one sink *)

Init == InitWith({SinkS})

InstallCmd == \E repo \in Repos, agents \in OneAgent : InstallCmdBegin(repo, agents)

InstallStep == InstallTarget(0)

UninstallCmd == \E name \in PackNames, agents \in OneAgent : UninstallCmdBegin(name, agents)

Next ==
    \/ InstallCmd
    \/ InstallStep
    \/ UninstallCmd
    \/ UninstallTarget

Spec == Init /\ [][Next]_vars

(* SpecMulti: the commands of one pack against one or two sinks *)

MultiRepos ==
    {r \in Repos : r.manifest.name = NameP /\ r.manifest.exclude = << >>
                    /\ r.manifest.include \in {<<IdA>>, <<IdB>>, <<IdA, <<"o">>>>}}

InitMulti == InitWith({SinkS, SinkT})

InstallCmdMulti ==
    \E repo \in MultiRepos, agents \in AgentSeqs : InstallCmdBegin(repo, agents)

UninstallCmdMulti == \E agents \in AgentSeqs : UninstallCmdBegin(NameP, agents)

\* a target whose copy of one skill fails with an I/O error
InstallStepIo == \E k \in 1..Len(resolved.final_skills) : InstallTarget(k)

NextMulti ==
    \/ InstallCmdMulti
    \/ InstallStep
    \/ InstallStepIo
    \/ UninstallCmdMulti
    \/ UninstallTarget

SpecMulti == InitMulti /\ [][NextMulti]_vars

(* SpecCrafted: one pack whose manifest sets a crafted install prefix or
   separator, against one sink *)

CraftedManifest(include, prefix, sep) ==
    [name |-> NameP, include |-> include, exclude |-> << >>, imports |-> << >>,
     prefix |-> prefix, sep |-> sep]

PrefixAbsolute == <<"/", "o">>
PrefixDotDot == <<".", ".", "/", "o">>

CraftedRepos ==
    { Repo(TreeAB, CraftedManifest(<<IdA>>, None, None)),
      Repo(TreeAB, CraftedManifest(<<IdB>>, None, None)),
      Repo(TreeAB, CraftedManifest(<<IdA>>, Some(PrefixAbsolute), None)),
      Repo(TreeAB, CraftedManifest(<<IdA>>, Some(PrefixDotDot), None)),
      Repo(TreeAB, CraftedManifest(<<IdA>>, None, Some(Slash))) }

\* a directory of the user next to the sink, and one inside it
CraftedSpots ==
    { install_name(PrefixAbsolute, DefaultSep, IdA),
      PathJoin(SinkS, install_name(NameP, DefaultSep, IdB)) }

InitCrafted ==
    /\ \E spots \in SUBSET CraftedSpots :
          /\ Cardinality(spots) <= MaxUserDirs
          /\ fs = WithUserDirs(EmptyFs, spots)
    /\ stateFile = NoFile
    /\ pc = "idle"
    /\ resolved = NoResolved
    /\ packName = EmptyStr
    /\ pending = << >>
    /\ mem = DefaultState
    /\ res = PlainRes("init", "ok", EmptyStr)
    /\ tmpFile = NoFile
    /\ wpc = "idle"
    /\ wdata = << >>
    /\ durable = NoDurable
    /\ cmd = NoCmd
    /\ arg = NoArg
    /\ ret = NoRet
    /\ procs = NoProcs

InstallCmdCrafted ==
    \E repo \in CraftedRepos, agents \in OneAgent : InstallCmdBegin(repo, agents)

UninstallCmdCrafted == \E agents \in OneAgent : UninstallCmdBegin(NameP, agents)

NextCrafted ==
    \/ InstallCmdCrafted
    \/ InstallStep
    \/ UninstallCmdCrafted
    \/ UninstallTarget

SpecCrafted == InitCrafted /\ [][NextCrafted]_vars

(* SpecRecover: one install command, chosen at the start, run again and
   again against one sink, its copies failing or not, with the uninstall of
   its pack in between *)

RecoverRepos ==
    {r \in GoodRepos : r.manifest.name = NameP /\ r.manifest.exclude = << >>}

InitRecover ==
    /\ \E spots \in SUBSET UserSpots({SinkS}) :
          /\ Cardinality(spots) <= MaxUserDirs
          /\ fs = WithUserDirs(EmptyFs, spots)
    /\ stateFile = NoFile
    /\ pc = "idle"
    /\ resolved = NoResolved
    /\ packName = EmptyStr
    /\ pending = << >>
    /\ mem = DefaultState
    /\ res = PlainRes("init", "ok", EmptyStr)
    /\ tmpFile = NoFile
    /\ wpc = "idle"
    /\ wdata = << >>
    /\ durable = NoDurable
    /\ cmd = NoCmd
    /\ arg \in {[of |-> "install_cmd", repo |-> r] : r \in RecoverRepos}
    /\ ret = NoRet
    /\ procs = NoProcs

InstallCmdRecover == arg.of = "install_cmd" /\ InstallCmdBegin(arg.repo, <<"codex">>)

UninstallCmdRecover ==
    arg.of = "install_cmd" /\ UninstallCmdBegin(arg.repo.manifest.name, <<"codex">>)

NextRecover ==
    \/ InstallCmdRecover
    \/ InstallStep
    \/ InstallStepIo
    \/ UninstallCmdRecover
    \/ UninstallTarget

SpecRecover == InitRecover /\ [][NextRecover]_vars

(* SpecConcurrent: two invocations of install, of two packs, running at the
   same time against one state file and one sink; each is at "start",
   "loaded" (after load_state), "installed" (after install_pack), "done"
   (after write_state) or "failed" *)

\* pack q with its default prefix: its destinations are not those of pack p
FirstRepos ==
    {r \in GoodRepos : r.manifest.name = NameP /\ r.manifest.exclude = << >>}

SecondRepos ==
    {r \in GoodRepos : r.manifest.name = NameQ}
        \cup {Repo(TreeAB, Manifest(NameQ, <<IdA>>, << >>, None))}

Invocation(repo, agent) ==
    [pc |-> "start", repo |-> repo, agent |-> agent, resolved |-> NoResolved,
     mem |-> DefaultState, file |-> NoFile, err |-> "ok"]

\* an invocation that never reads the state file
invocation_loaded_default(p, file) ==
    LET checked(c) ==
            [p EXCEPT !.pc = IF c.err = "ok" THEN "loaded" ELSE "failed",
                      !.resolved = c.resolved,
                      !.mem = DefaultState,
                      !.file = file,
                      !.err = c.err]
    IN  checked(install_cmd_checks(p.repo, <<p.agent>>, file))

\* install_cmd up to load_state (cli.rs 400-413) in one invocation
invocation_loaded(p, file) ==
    LET checked(c) ==
            [p EXCEPT !.pc = IF c.err = "ok" THEN "loaded" ELSE "failed",
                      !.resolved = c.resolved,
                      !.mem = c.state,
                      !.file = file,
                      !.err = c.err]
    IN  checked(install_cmd_checks(p.repo, <<p.agent>>, file))

InitConcurrent ==
    /\ \E spots \in SUBSET UserSpots({SinkS}) :
          /\ Cardinality(spots) <= MaxUserDirs
          /\ fs = WithUserDirs(EmptyFs, spots)
    /\ stateFile = NoFile
    /\ pc = "idle"
    /\ resolved = NoResolved
    /\ packName = EmptyStr
    /\ pending = << >>
    /\ mem = DefaultState
    /\ res = PlainRes("init", "ok", EmptyStr)
    /\ tmpFile = NoFile
    /\ wpc = "idle"
    /\ wdata = << >>
    /\ durable = NoDurable
    /\ cmd = NoCmd
    /\ arg = NoArg
    /\ ret = NoRet
    /\ procs \in {<<Invocation(r1, "codex"), Invocation(r2, "codex")>> :
                     r1 \in FirstRepos, r2 \in SecondRepos}

\* load_state of invocation i (cli.rs 413), after its checks
ProcLoad(i) ==
    /\ procs[i].pc = "start"
    /\ procs' = [procs EXCEPT ![i] = invocation_loaded(procs[i], stateFile)]
    /\ UNCHANGED <<fs, stateFile, pc, resolved, packName, pending, mem, res,
                   tmpFile, wpc, wdata, durable, cmd, arg, ret>>

\* install_pack of invocation i (cli.rs 425)
ProcInstall(i) ==
    /\ procs[i].pc = "loaded"
    /\ LET p == procs[i]
           installed(r) ==
               /\ fs' = r.fs
               /\ procs' = [procs EXCEPT ![i] =
                               [p EXCEPT !.pc = IF r.err = "ok" THEN "installed"
                                               ELSE "failed",
                                         !.mem = r.state,
                                         !.err = r.err]]
       IN  installed(install_pack(fs, p.mem, p.resolved, p.agent,
                                  resolve_sink_path(p.agent), 0))
    /\ UNCHANGED <<stateFile, pc, resolved, packName, pending, mem, res,
                   tmpFile, wpc, wdata, durable, cmd, arg, ret>>

\* write_state of invocation i (cli.rs 426)
ProcWrite(i) ==
    /\ procs[i].pc = "installed"
    /\ stateFile' = write_state(procs[i].mem)
    /\ procs' = [procs EXCEPT ![i].pc = "done"]
    /\ UNCHANGED <<fs, pc, resolved, packName, pending, mem, res,
                   tmpFile, wpc, wdata, durable, cmd, arg, ret>>

LoadStep == \E i \in DOMAIN procs : ProcLoad(i)
InstallPackStep == \E i \in DOMAIN procs : ProcInstall(i)
WriteStateStep == \E i \in DOMAIN procs : ProcWrite(i)

NextConcurrent ==
    \/ LoadStep
    \/ InstallPackStep
    \/ WriteStateStep

SpecConcurrent == InitConcurrent /\ [][NextConcurrent]_vars

----------------------------------------------------------------------------
(* state.rs write_state_at, one system call at a time.  tmpFile is the file
   the running write created (the NamedTempFile, which persist() renames
   onto the state path); durable.temp is how much of that file stable
   storage holds, durable.target the file a power loss leaves at the state
   path, durable.renamed whether a rename has not reached the disk yet. *)

\* the states the writer is asked to persist
RecordOf(pack, sink, sink_path, ids) ==
    [sink |-> sink, sink_path |-> sink_path, pack |-> pack,
     prefix |-> pack, sep |-> DefaultSep,
     installed_paths |-> build_install_paths([i \in 1..Len(ids) |-> [id |-> ids[i]]],
                                             sink_path, pack, DefaultSep)]

\* a record with every field of InstallRecord, whose strings hold the
\* characters the serializer escapes and the text of the null literal
QuotedRecord ==
    [sink |-> "claude",
     sink_path |-> SinkT,
     pack |-> <<Backslash, "n">>,
     pack_file |-> <<Quote, "p", Quote>>,
     prefix |-> <<Backslash>>,
     sep |-> <<Newline>>,
     flatten |-> TRUE,
     imports |-> <<[repo |-> <<"r", Backslash, Quote>>, ref_name |-> None,
                    commit |-> EmptyStr],
                   [repo |-> <<"s">>, ref_name |-> Some(JsonNull),
                    commit |-> <<Backslash, Backslash, "n">>],
                   [repo |-> <<"s">>, ref_name |-> Some(EmptyStr),
                    commit |-> <<"c">>]>>,
     installed_paths |-> <<PathJoin(SinkT, <<Backslash, "n", Quote>>),
                           PathJoin(SinkT, <<Newline, "a">>)>>,
     installed_at |-> <<"2", "0", "2", "5">>]

WriteStates ==
    { DefaultState,
      [version |-> StateVersion,
       installs |-> <<RecordOf(NameP, "codex", SinkS, <<IdA>>)>>],
      [version |-> StateVersion,
       installs |-> <<RecordOf(NameP, "codex", SinkS, <<IdA, IdB>>),
                      RecordOf(NameQ, "claude", SinkT, <<IdB>>)>>],
      [version |-> StateVersion + 1,
       installs |-> <<QuotedRecord, RecordOf(NameP, "codex", SinkS, << >>)>>] }

\* a sync_all that does nothing
sync_all_skipped(file, on_disk) == on_disk

\* File::sync_all: the whole file reaches stable storage
sync_all(file, on_disk) == file

WriteStep(op) == PlainRes(op, wpc, EmptyStr)

\* create_dir_all, NamedTempFile::new_in and to_vec_pretty (state.rs 66-70)
WriteBegin(state) ==
    /\ pc = "idle" /\ wpc = "idle"
    /\ tmpFile' = File(<< >>)
    /\ wdata' = Serialize(state)
    /\ wpc' = "writing"
    /\ cmd' = [NoCmd EXCEPT !.file = stateFile]
    /\ \E t \in {durable.target} \cup
                (IF durable.renamed THEN {File(durable.temp.bytes)} ELSE {}) :
          durable' = [target |-> t, temp |-> NoFile, renamed |-> FALSE]
    /\ res' = WriteStep("write_begin")
    /\ arg' = [of |-> "write_state_at", state |-> state]
    /\ UNCHANGED <<ret, procs, fs, stateFile, pc, resolved, packName, pending, mem>>

\* write_all (state.rs 72), one write call at a time
WriteChunk ==
    /\ wpc = "writing"
    /\ Len(tmpFile.bytes) < Len(wdata)
    /\ tmpFile' = File(Append(tmpFile.bytes, wdata[Len(tmpFile.bytes) + 1]))
    /\ res' = WriteStep("write_all")
    /\ UNCHANGED <<arg, ret, procs, fs, stateFile, pc, resolved, packName, pending, mem,
                   wpc, wdata, durable, cmd>>

\* temp.as_file().sync_all() (state.rs 73)
SyncTemp ==
    /\ wpc = "writing"
    /\ tmpFile.bytes = wdata
    /\ durable' = [durable EXCEPT !.temp = sync_all(tmpFile, durable.temp)]
    /\ wpc' = "synced"
    /\ res' = WriteStep("sync_all")
    /\ UNCHANGED <<arg, ret, procs, fs, stateFile, pc, resolved, packName, pending, mem,
                   tmpFile, wdata, cmd>>

\* temp.persist(path) (state.rs 74): rename onto the state path
Persist ==
    /\ wpc = "synced"
    /\ stateFile' = tmpFile
    /\ durable' = [durable EXCEPT !.renamed = TRUE]
    /\ wpc' = "renamed"
    /\ res' = WriteStep("persist")
    /\ UNCHANGED <<arg, ret, procs, fs, pc, resolved, packName, pending, mem, tmpFile, wdata, cmd>>

\* the directory entry of the rename reaches the disk: the state path then
\* names whatever stable storage holds of the renamed file
FlushRename(d) ==
    [target |-> File(d.temp.bytes), temp |-> NoFile, renamed |-> FALSE]

\* File::open(dir) and dir_file.sync_all() (state.rs 75-77)
SyncDir ==
    /\ wpc = "renamed"
    /\ durable' = IF durable.renamed THEN FlushRename(durable) ELSE durable
    /\ wpc' = "idle"
    /\ tmpFile' = NoFile
    /\ res' = WriteStep("sync_dir")
    /\ UNCHANGED <<arg, ret, procs, fs, stateFile, pc, resolved, packName, pending, mem, wdata, cmd>>

\* the operating system writes more of the new file back on its own
OsFlushData ==
    /\ wpc \in {"writing", "synced"}
    /\ \E n \in (Len(durable.temp.bytes) + 1)..Len(tmpFile.bytes) :
          durable' = [durable EXCEPT !.temp = File(SubSeq(tmpFile.bytes, 1, n))]
    /\ res' = WriteStep("os_flush_data")
    /\ UNCHANGED <<arg, ret, procs, fs, stateFile, pc, resolved, packName, pending, mem,
                   tmpFile, wpc, wdata, cmd>>

\* the operating system writes the renamed directory entry back on its own
OsFlushDir ==
    /\ durable.renamed
    /\ durable' = FlushRename(durable)
    /\ res' = WriteStep("os_flush_dir")
    /\ UNCHANGED <<arg, ret, procs, fs, stateFile, pc, resolved, packName, pending, mem,
                   tmpFile, wpc, wdata, cmd>>

\* the process is killed inside write_state_at; the temporary file it may
\* leave behind has a name of its own and is never read again
Crash ==
    /\ wpc # "idle"
    /\ wpc' = "idle"
    /\ tmpFile' = NoFile
    /\ res' = WriteStep("crash")
    /\ UNCHANGED <<arg, ret, procs, fs, stateFile, pc, resolved, packName, pending, mem,
                   wdata, durable, cmd>>

\* the machine loses power: what is not on stable storage is gone
PowerLoss ==
    /\ stateFile' = durable.target
    /\ durable' = [target |-> durable.target, temp |-> NoFile, renamed |-> FALSE]
    /\ tmpFile' = NoFile
    /\ wpc' = "idle"
    /\ res' = WriteStep("power_loss")
    /\ UNCHANGED <<arg, ret, procs, fs, pc, resolved, packName, pending, mem, wdata, cmd>>

\* load_state_at by the next run of the program
LoadState ==
    /\ wpc = "idle"
    /\ LET loaded == load_state_at(stateFile)
       IN  /\ mem' = loaded.state
           /\ res' = PlainRes("load_state", loaded.err, EmptyStr)
    /\ UNCHANGED <<arg, ret, procs, fs, stateFile, pc, resolved, packName, pending,
                   tmpFile, wpc, wdata, durable, cmd>>

InitWrite ==
    /\ fs = EmptyFs
    /\ stateFile = NoFile
    /\ pc = "idle"
    /\ resolved = NoResolved
    /\ packName = EmptyStr
    /\ pending = << >>
    /\ mem = DefaultState
    /\ res = PlainRes("init", "ok", EmptyStr)
    /\ tmpFile = NoFile
    /\ wpc = "idle"
    /\ wdata = << >>
    /\ durable = NoDurable
    /\ cmd = NoCmd
    /\ arg = NoArg
    /\ ret = NoRet
    /\ procs = NoProcs

WriteState == \E state \in WriteStates : WriteBegin(state)

NextWrite ==
    \/ WriteState
    \/ WriteChunk
    \/ SyncTemp
    \/ Persist
    \/ SyncDir
    \/ OsFlushData
    \/ OsFlushDir
    \/ Crash
    \/ PowerLoss
    \/ LoadState

SpecWrite == InitWrite /\ [][NextWrite]_vars

----------------------------------------------------------------------------
(* SpecResolve: resolve_pack and detect_collisions applied to one repository
   with up to MaxImports imports *)

MaxImports == 2

RepoR == <<"r">>
RepoS == <<"s">>
IdAB == <<"a", "/", "b">>
IdFlat == <<"a", "_", "_", "b">>
PatNone == <<"o">>
PatBad == <<"*", "*", "a">>

\* an import and the tree its checked-out repository holds
ImportOf(repo, tree, include, exclude) ==
    [repo |-> repo, tree |-> tree, include |-> include, exclude |-> exclude]

ImportSpecs ==
    { ImportOf(RepoR, TreeAB, <<PatStar>>, << >>),
      ImportOf(RepoR, TreeAB, <<PatStar>>, <<IdA>>),
      ImportOf(RepoS, TreeAB, <<IdA>>, << >>),
      ImportOf(RepoS, TreeAB, <<IdA, PatNone>>, << >>),
      ImportOf(RepoS, TreeAB, <<IdA>>, <<PatNone>>),
      ImportOf(RepoS, <<IdFlat>>, <<PatStar>>, << >>),
      ImportOf(RepoR, <<IdA, IdAB>>, <<StarStar>>, << >>) }

RECURSIVE ImportSeqs(_)
ImportSeqs(n) ==
    IF n = 0 THEN {<< >>}
    ELSE ImportSeqs(n - 1) \cup
         {Append(s, i) : s \in {t \in ImportSeqs(n - 1) : Len(t) = n - 1}, i \in ImportSpecs}

\* the skills tree of the repository; the last has a SKILL.md at the root
LocalTrees == {TreeAB, TreeCollide, <<IdB>>, <<EmptyStr, IdA>>}

LocalIncludes ==
    { << >>, <<IdA>>, <<IdB>>, <<IdAB>>, <<PatStar>>, <<StarStar>>, <<IdA, PatNone>>,
      <<IdB, IdA>>, <<IdA, PatBad>> }

PackExcludes == { << >>, <<IdA>>, <<PatNone>>, <<StarStar>>, <<PatBad>> }

ResolveRepos ==
    { Repo(tree, [name |-> NameP, include |-> include, exclude |-> exclude,
                  imports |-> imports, prefix |-> None, sep |-> None]) :
          tree \in LocalTrees, include \in LocalIncludes, exclude \in PackExcludes,
          imports \in ImportSeqs(MaxImports) }

NoCollision == [err |-> "none", name |-> EmptyStr]

InitPure ==
    /\ fs = EmptyFs
    /\ stateFile = NoFile
    /\ pc = "idle"
    /\ resolved = NoResolved
    /\ packName = EmptyStr
    /\ pending = << >>
    /\ mem = DefaultState
    /\ res = PlainRes("init", "ok", EmptyStr)
    /\ tmpFile = NoFile
    /\ wpc = "idle"
    /\ wdata = << >>
    /\ durable = NoDurable
    /\ cmd = NoCmd
    /\ ret = NoRet
    /\ procs = NoProcs

installer == <<fs, stateFile, pc, resolved, packName, pending, mem, res,
               tmpFile, wpc, wdata, durable, cmd, procs>>

InitResolve ==
    /\ InitPure
    /\ arg \in {[of |-> "resolve_pack", repo |-> repo] : repo \in ResolveRepos}

ResolvePack ==
    /\ arg.of = "resolve_pack"
    /\ ret.op = "none"
    /\ ret' = [op |-> "resolve_pack", resolved |-> resolve_pack(arg.repo),
               collision |-> NoCollision]
    /\ UNCHANGED <<installer, arg>>

\* the collision check the commands run on the resolved pack (cli.rs 406-411)
DetectCollisions ==
    /\ ret.op = "resolve_pack"
    /\ ret.resolved.err = "ok"
    /\ LET scanned(rp) ==
               CollisionScan(rp.final_skills, 1, {}, rp.pack.install_prefix,
                             rp.pack.install_sep)
       IN  ret' = [op |-> "detect_collisions", resolved |-> ret.resolved,
                   collision |-> scanned(ret.resolved)]
    /\ UNCHANGED <<installer, arg>>

NextResolve ==
    \/ ResolvePack
    \/ DetectCollisions

SpecResolve == InitResolve /\ [][NextResolve]_vars

----------------------------------------------------------------------------
(* SpecPattern: the functions of patterns.rs applied to a list of patterns
   and a text *)

MaxPatSegs == 3
MaxIdSegs == 3

\* every string of at most n characters
Strings(chars, n) == UNION {[1..k -> chars] : k \in 0..n}

RECURSIVE JoinWith(_, _)
JoinWith(segs, c) ==
    IF Len(segs) = 1 THEN segs[1]
    ELSE segs[1] \o <<c>> \o JoinWith(Tail(segs), c)

\* every '/'-joined string of at most n of the segments
Joined(segs, n) == {JoinWith(seq, "/") : seq \in UNION {[1..k -> segs] : k \in 1..n}}

PatternTexts ==
    Strings({"a", "*", "/"}, MaxPatSegs + 1)
    \cup Joined({<<"a">>, <<"*">>, StarStar, <<"a", "*">>}, MaxPatSegs)

IdTexts ==
    Strings({"a", "A", "/"}, 3)
    \cup Joined({<<"a">>, <<"b">>}, MaxIdSegs)

MaxListLen == 3

\* the lists PatternSet::new is given, and the ids they are matched against
ListPatterns ==
    { <<"a">>, <<"*">>, <<"a", "/", "*", "*">>, <<"*", "*", "/", "b">>, <<"*", "*", "a">> }

PatternLists == UNION {[1..k -> ListPatterns] : k \in 2..MaxListLen}

ListTexts == Joined({<<"a">>, <<"b">>}, MaxIdSegs)

PatternArgs ==
    {[of |-> "patterns", patterns |-> <<p>>, text |-> t] :
        p \in PatternTexts, t \in IdTexts}
    \cup {[of |-> "patterns", patterns |-> list, text |-> t] :
             list \in PatternLists, t \in ListTexts}

InitPattern ==
    /\ InitPure
    /\ arg \in PatternArgs

IsValidPattern ==
    /\ arg.of = "patterns"
    /\ ret.op = "none"
    /\ Len(arg.patterns) = 1
    /\ ret' = [op |-> "is_valid_pattern", value |-> is_valid_pattern(arg.patterns[1])]
    /\ UNCHANGED <<installer, arg>>

MatchPattern ==
    /\ arg.of = "patterns"
    /\ ret.op = "none"
    /\ Len(arg.patterns) = 1
    /\ ret' = [op |-> "match_pattern", value |-> match_pattern(arg.patterns[1], arg.text)]
    /\ UNCHANGED <<installer, arg>>

NewPatternSet ==
    /\ arg.of = "patterns"
    /\ ret.op = "none"
    /\ LET built(matcher) ==
               ret' = [op |-> "PatternSet::new", err |-> matcher.err,
                       pattern |-> matcher.pattern]
       IN  built(PatternSetNew(arg.patterns))
    /\ UNCHANGED <<installer, arg>>

\* PatternSet::is_match and match_count_per_pattern on the set just built
SetIsMatch ==
    /\ ret.op = "PatternSet::new"
    /\ ret.err = "ok"
    /\ ret' = [op |-> "is_match",
               value |-> PatternSetIsMatch(arg.patterns, arg.text),
               counts |-> match_count_per_pattern(arg.patterns, <<arg.text>>)]
    /\ UNCHANGED <<installer, arg>>

NextPattern ==
    \/ IsValidPattern
    \/ MatchPattern
    \/ NewPatternSet
    \/ SetIsMatch

SpecPattern == InitPattern /\ [][NextPattern]_vars

----------------------------------------------------------------------------
(* SpecDiscover: discover_skills applied to a walk of at most MaxWalk
   SKILL.md entries, in the order the walk meets them *)

MaxWalk == 3

\* the directories, relative to the root, that may hold a SKILL.md entry;
\* the empty string is the root itself
WalkDirs ==
    { EmptyStr, IdA, IdB, IdAB, <<"a", "b">>, <<"a", "/", "b", "/", "a">> }

\* one entry named SKILL.md: a regular file or a directory
SkillMd(dir, is_file) == [dir |-> dir, is_file |-> is_file]

Walks ==
    {w \in UNION {[1..k -> {SkillMd(d, f) : d \in WalkDirs, f \in BOOLEAN}] :
                     k \in 0..MaxWalk} :
        \A i, j \in 1..Len(w) : w[i].dir = w[j].dir => i = j}

\* the loop over the walk up to the root checks (discover.rs 35-48): the
\* parents of the entries that are regular files
SkillMdParents(entries) ==
    LET files(kept) == [i \in 1..Len(kept) |-> kept[i].dir]
    IN  files(SelectSeq(entries, LAMBDA e : e.is_file))

InitDiscover ==
    /\ InitPure
    /\ arg \in {[of |-> "discover_skills", entries |-> w, is_local |-> l] :
                   w \in Walks, l \in BOOLEAN}

DiscoverSkills ==
    /\ arg.of = "discover_skills"
    /\ ret.op = "none"
    /\ ret' = [op |-> "discover_skills",
               found |-> discover_skills(SkillMdParents(arg.entries), arg.is_local)]
    /\ UNCHANGED <<installer, arg>>

NextDiscover == DiscoverSkills

SpecDiscover == InitDiscover /\ [][NextDiscover]_vars

----------------------------------------------------------------------------
(* SpecRoundTrip: install_pack applied to a sink and a StateFile, then
   uninstall_pack of the same pack applied to what it left *)

RoundTripRepos ==
    CraftedRepos \cup {r \in GoodRepos : r.manifest.name = NameP}

\* the sink with up to MaxUserDirs directories of the user in or next to it,
\* and the file system without the sink
RoundTripFs ==
    {EmptyFs} \cup
    {CreateDirAll(WithUserDirs(EmptyFs, spots), SinkS) :
        spots \in {x \in SUBSET (CraftedSpots \cup UserSpots({SinkS})) :
                      Cardinality(x) <= MaxUserDirs}}

\* no record, the record of another pack, a record of the pack itself
RoundTripStates ==
    { DefaultState,
      [version |-> StateVersion,
       installs |-> <<RecordOf(NameQ, "codex", SinkS, <<IdB>>)>>],
      [version |-> StateVersion,
       installs |-> <<RecordOf(NameP, "codex", SinkS, <<IdB>>)>>] }

InitRoundTrip ==
    /\ InitPure
    /\ arg \in {[of |-> "install_pack", fs |-> f, state |-> state,
                 resolved |-> resolve_pack(repo), agent |-> "codex"] :
                   f \in RoundTripFs, state \in RoundTripStates,
                   repo \in RoundTripRepos}

InstallPack ==
    /\ arg.of = "install_pack"
    /\ ret.op = "none"
    /\ ret' = [op |-> "install_pack",
               installed |-> install_pack(arg.fs, arg.state, arg.resolved, arg.agent,
                                          resolve_sink_path(arg.agent), 0)]
    /\ UNCHANGED <<installer, arg>>

UninstallPack ==
    /\ ret.op = "install_pack"
    /\ ret.installed.err = "ok"
    /\ ret' = [op |-> "uninstall_pack",
               installed |-> ret.installed,
               uninstalled |-> uninstall_pack(ret.installed.fs, ret.installed.state,
                                              resolve_sink_path(arg.agent),
                                              arg.resolved.pack.name)]
    /\ UNCHANGED <<installer, arg>>

NextRoundTrip ==
    \/ InstallPack
    \/ UninstallPack

SpecRoundTrip == InitRoundTrip /\ [][NextRoundTrip]_vars

----------------------------------------------------------------------------
(* Shared vocabulary of the properties *)

\* the destination of one skill of a resolved pack in a sink
DestOf(rp, sink_path, id) ==
    PathJoin(sink_path, install_name(rp.pack.install_prefix, rp.pack.install_sep, id))

Dests(rp, sink_path) ==
    {DestOf(rp, sink_path, rp.final_skills[i].id) : i \in 1..Len(rp.final_skills)}

\* the paths the records of (sink_path, pack) in a StateFile list
Listed(state, sink_path, pack) ==
    UNION {Range(state.installs[i].installed_paths) :
              i \in {k \in 1..Len(state.installs) :
                        /\ state.installs[k].sink_path = sink_path
                        /\ state.installs[k].pack = pack}}

\* the sink the running command is about to process
CurrentSink == resolve_sink_path(Head(pending))

\* the directory d has the same content before and after the step
Untouched(d) == d \in DOMAIN fs /\ d \in DOMAIN fs' /\ fs'[d] = fs[d]

InstallStepDone == pc = "install" /\ res'.op = "install_pack"
UninstallStepDone == pc = "uninstall" /\ res'.op = "uninstall_pack"

----------------------------------------------------------------------------
\* C1: whenever install_pack meets a skill whose destination directory exists
\* and is not listed in the record of this (sink_path, pack) (or there is no
\* such record), it fails with DestinationNotOwned and that directory is
\* still there with the content it had.
C1_UnownedDestinationIsRefused ==
    [][InstallStepDone =>
          \A dest \in Dests(resolved, CurrentSink) :
              (/\ Exists(fs, dest)
               /\ dest \notin Listed(mem, CurrentSink, resolved.pack.name))
              => /\ res'.err = "DestinationNotOwned"
                 /\ Untouched(Physical(dest))]_vars

\* an install has just been refused and the directory of somebody else that
\* stood in its way is in the sink
C1_Witness ==
    /\ res.op = "install_pack"
    /\ res.err = "DestinationNotOwned"
    /\ \E d \in DOMAIN fs :
          /\ Within(d, res.sink_path)
          /\ fs[d].kind \in {"user", "skill"}
          /\ fs[d].kind = "skill" => fs[d].by # res.pack

----------------------------------------------------------------------------
\* the directories the records of (sink_path, pack) list
ListedDirs(state, sink_path, pack) ==
    {Physical(path) : path \in Listed(state, sink_path, pack)}

\* the directories some record of the StateFile lists
AllListedDirs(state) ==
    UNION {{Physical(path) : path \in Range(state.installs[i].installed_paths)} :
              i \in 1..Len(state.installs)}

\* d was installed by a pack other than `pack` whose record still lists it
InstalledByOther(d, state, sink_path, pack) ==
    /\ fs[d].kind = "skill"
    /\ fs[d].by # pack
    /\ d \in ListedDirs(state, sink_path, fs[d].by)

\* d is content that no record lists
UnlistedContent(d, state) ==
    /\ fs[d].kind # "dir"
    /\ d \notin AllListedDirs(state)

\* C2: an install or uninstall of pack P never removes or overwrites a
\* directory that another pack Q installed and Q's record still lists, nor a
\* directory that no record lists.
C2_OtherContentIsNeverTouched ==
    [][(InstallStepDone \/ UninstallStepDone) =>
          \A d \in DOMAIN fs :
              (\/ InstalledByOther(d, mem, CurrentSink, res'.pack)
               \/ UnlistedContent(d, mem))
              => Untouched(d)]_vars

\* the part of C2 about content that no record lists
C2_UnlistedContentIsNeverTouched ==
    [][(InstallStepDone \/ UninstallStepDone) =>
          \A d \in DOMAIN fs : UnlistedContent(d, mem) => Untouched(d)]_vars

----------------------------------------------------------------------------
\* C3: install_pack and uninstall_pack never create, overwrite or remove a
\* directory outside sink_path, whatever the install prefix and separator
\* are, and a recorded path that does not lie within sink_path makes the
\* operation fail and is not removed.
C3_NothingOutsideTheSinkIsTouched ==
    [][(InstallStepDone \/ UninstallStepDone) =>
          /\ \A d \in (DOMAIN fs) \cup (DOMAIN fs') :
                ~Within(d, CurrentSink) => Untouched(d)
          /\ \A d \in ListedDirs(mem, CurrentSink, res'.pack) :
                (~Within(d, CurrentSink) /\ d \in DOMAIN fs)
                => (res'.err # "ok" /\ d \in DOMAIN fs')]_vars

----------------------------------------------------------------------------
\* the sink paths of the targets the running command has completed
DoneSinks ==
    {resolve_sink_path(cmd.agents[i]) : i \in 1..(Len(cmd.agents) - Len(pending))}

InstallStepFailed == InstallStepDone /\ res'.err # "ok"

\* C4 as stated: when a target of an install command fails, the state file
\* is identical to what it was before the command started.
C4_FailedInstallLeavesStateFileAsBefore ==
    [][InstallStepFailed => stateFile' = cmd.file]_vars

\* C4: the target that fails writes nothing to the state file; what the file
\* holds then is the state of before the command with, for each target
\* completed before the failure, the complete record of that target, and
\* it is the file of before the command when the first target fails.
C4_FailedTargetPersistsNothing ==
    [][InstallStepFailed =>
          LET before == load_state_at(cmd.file).state
              now == load_state_at(stateFile')
              pack == resolved.pack.name
              mine(r) == r.pack = pack /\ r.sink_path \in DoneSinks
          IN  /\ stateFile' = stateFile
              /\ now.err = "ok"
              /\ DoneSinks = {} => stateFile' = cmd.file
              /\ \A r \in Range(before.installs) :
                    ~mine(r) => r \in Range(now.state.installs)
              /\ \A r \in Range(now.state.installs) :
                    IF mine(r)
                    THEN Range(r.installed_paths) = Dests(resolved, r.sink_path)
                    ELSE r \in Range(before.installs)
              /\ \A s \in DoneSinks :
                    \E r \in Range(now.state.installs) : r.pack = pack /\ r.sink_path = s]_vars

\* the second target of a command failed after the first was persisted
C4_Witness ==
    /\ res.op = "install_pack"
    /\ res.err \in {"DestinationNotOwned", "Io"}
    /\ res.sink_path = SinkT
    /\ Len(cmd.agents) = 2
    /\ stateFile # cmd.file
    /\ \E r \in Range(load_state_at(stateFile).state.installs) :
          r.sink_path = SinkS /\ r.pack = res.pack

----------------------------------------------------------------------------
\* what the checks of the install command establish about a repository
ManifestIsValid(m) == ~IsBlank(m.name) /\ (m.include # << >> \/ m.imports # << >>)

PatternsAreValid(m) ==
    \A pat \in Range(m.include) \cup Range(m.exclude) : is_valid_pattern(pat)

EveryIncludeMatches(repo) ==
    \A pat \in Range(repo.manifest.include) :
        \E id \in Range(repo.tree) : match_pattern(pat, id)

InstallNamesAreDistinct(repo) ==
    LET distinct(rp) ==
            Cardinality({install_name(rp.pack.install_prefix, rp.pack.install_sep, sk.id) :
                            sk \in Range(rp.final_skills)})
                = Len(rp.final_skills)
    IN  distinct(resolve_pack(repo))

ChecksPass(repo) ==
    /\ ManifestIsValid(repo.manifest)
    /\ PatternsAreValid(repo.manifest)
    /\ EveryIncludeMatches(repo)
    /\ InstallNamesAreDistinct(repo)

InstallCmdBegun == pc = "idle" /\ res'.op = "install_cmd"

\* C5: in the install command the manifest validation, the pattern
\* validation, the include zero-match check and the install-name collision
\* check all complete before the first change to a sink directory or to
\* the state file: a command whose repository fails one of them ends with
\* an error without having changed any directory or the state file, and
\* every step of the target loop runs for a repository that passes them all.
C5_ChecksPrecedeEveryChange ==
    [][/\ (InstallCmdBegun /\ ~ChecksPass(cmd'.repo))
          => /\ res'.err # "ok"
             /\ pc' = "idle"
             /\ fs' = fs
             /\ stateFile' = stateFile
       /\ InstallCmdBegun => (fs' = fs /\ stateFile' = stateFile)
       /\ InstallStepDone => ChecksPass(cmd.repo)]_vars

\* a command refused for a name collision, with installed directories around
C5_Witness ==
    /\ res.op = "install_cmd"
    /\ res.err = "NameCollision"
    /\ ~InstallNamesAreDistinct(cmd.repo)
    /\ \E d \in DOMAIN fs : fs[d].kind = "skill"
    /\ stateFile.present

----------------------------------------------------------------------------
CompleteFiles == {NoFile} \cup {File(Serialize(state)) : state \in WriteStates}

\* C6: write_state_at is crash-safe: at every step of the write, and after
\* the process is killed at that step, the file at the state path is the
\* file of before the write (absent or the complete previous state) or the
\* complete new state; after a power loss it is absent or a complete state
\* that a write handed to the writer; load_state_at never fails on it.
C6_StateFileIsAlwaysComplete ==
    /\ stateFile \in CompleteFiles
    /\ load_state_at(stateFile).err = "ok"
    /\ (wpc # "idle" \/ res.op = "crash") => stateFile \in {cmd.file, File(wdata)}
    /\ res.op = "load_state" => res.err = "ok"

\* power was lost between the rename and the directory sync, and the state
\* path holds the complete new state
C6_Witness ==
    /\ res.op = "power_loss"
    /\ res.err = "renamed"
    /\ stateFile = File(wdata)
    /\ stateFile # cmd.file
    /\ Len(wdata) > 3

----------------------------------------------------------------------------
\* the positions of the records of (sink_path, pack) in a StateFile
RecordsOf(state, sink_path, pack) ==
    {i \in 1..Len(state.installs) :
        /\ state.installs[i].sink_path = sink_path
        /\ state.installs[i].pack = pack}

\* the StateFile a step leaves in the state file
Persisted == load_state_at(stateFile').state

InstallSucceeded == InstallStepDone /\ res'.err = "ok"
UninstallSucceeded == UninstallStepDone /\ res'.err = "ok"

\* C7: after a successful install_pack of a pack that has a prior record for
\* (sink_path, pack), every path of the prior record that is not a
\* destination of the new resolution no longer exists, every destination of
\* the new resolution exists, and the record's installed_paths is exactly
\* the set of new destinations.
C7_ReinstallReconciles ==
    [][(InstallSucceeded /\ RecordsOf(mem, CurrentSink, resolved.pack.name) # {}) =>
          LET new == Dests(resolved, CurrentSink)
              pack == resolved.pack.name
          IN  /\ \A old \in Listed(mem, CurrentSink, pack) \ new : ~Exists(fs', old)
              /\ \A dest \in new : Exists(fs', dest)
              /\ RecordsOf(Persisted, CurrentSink, pack) # {}
              /\ \A i \in RecordsOf(Persisted, CurrentSink, pack) :
                    /\ Range(Persisted.installs[i].installed_paths) = new
                    /\ Len(Persisted.installs[i].installed_paths) = Cardinality(new)]_vars

\* a reinstall has just removed a stale path and added a new one
C7_Witness ==
    /\ res.op = "install_pack"
    /\ res.err = "ok"
    /\ res.removed > 0
    /\ res.added > 0
    /\ \A old \in Range(res.old_paths) \ Range(res.paths) : ~Exists(fs, old)
    /\ \A dest \in Range(res.paths) : Exists(fs, dest)

----------------------------------------------------------------------------
\* the state an install of the resolved pack rp into sink_path leaves: the
\* record lists the destinations of rp and each holds the copy of its skill
InstalledAs(state, f, rp, sink_path) ==
    /\ \E i \in RecordsOf(state, sink_path, rp.pack.name) :
          state.installs[i].installed_paths =
              build_install_paths(rp.final_skills, sink_path,
                                  rp.pack.install_prefix, rp.pack.install_sep)
    /\ \A k \in 1..Len(rp.final_skills) :
          LET dest == DestOf(rp, sink_path, rp.final_skills[k].id)
          IN  /\ Exists(f, dest)
              /\ f[Physical(dest)] = SkillCopy(rp.pack.name, rp.final_skills[k].id)

\* C8: installing the same resolved pack twice in a row into the same sink
\* succeeds both times: a successful install leaves the pack installed, and
\* an install that finds the pack installed as it resolves now succeeds,
\* leaves the same installed_paths and the same directories, and reports
\* added = 0, removed = 0 and updated = the number of installed paths.
C8_SecondInstallChangesNothing ==
    [][/\ InstallSucceeded => InstalledAs(Persisted, fs', resolved, CurrentSink)
       /\ (InstallStepDone /\ InstalledAs(mem, fs, resolved, CurrentSink))
          => /\ res'.err = "ok"
             /\ fs' = fs
             /\ res'.paths = res'.old_paths
             /\ Persisted.installs = mem.installs
             /\ res'.added = 0
             /\ res'.removed = 0
             /\ res'.updated = Len(res'.paths)]_vars

\* the second of two installs in a row of a pack with skills
C8_Witness ==
    /\ res.op = "install_pack"
    /\ res.err = "ok"
    /\ res.paths = res.old_paths
    /\ res.added = 0
    /\ res.removed = 0
    /\ res.updated = Len(res.paths)
    /\ res.updated = 2

----------------------------------------------------------------------------
OneRecordPerPair(state) ==
    \A i, j \in 1..Len(state.installs) :
        (/\ state.installs[i].sink_path = state.installs[j].sink_path
         /\ state.installs[i].pack = state.installs[j].pack) => i = j

\* C9: state.installs holds at most one record per (sink_path, pack): the
\* first install of a pair appends one record, a reinstall replaces the
\* record at its position without adding one, and uninstall removes it.
C9_OneRecordPerPair ==
    [][/\ OneRecordPerPair(mem')
       /\ OneRecordPerPair(Persisted)
       /\ InstallSucceeded =>
             LET at == RecordsOf(mem, CurrentSink, resolved.pack.name)
                 after == Persisted.installs
             IN  IF at = {}
                 THEN /\ Len(after) = Len(mem.installs) + 1
                      /\ SubSeq(after, 1, Len(mem.installs)) = mem.installs
                      /\ after[Len(after)].sink_path = CurrentSink
                      /\ after[Len(after)].pack = resolved.pack.name
                 ELSE /\ Len(after) = Len(mem.installs)
                      /\ \A i \in 1..Len(after) :
                            IF i \in at
                            THEN /\ after[i].sink_path = CurrentSink
                                 /\ after[i].pack = resolved.pack.name
                            ELSE after[i] = mem.installs[i]
       /\ UninstallSucceeded =>
             /\ RecordsOf(Persisted, CurrentSink, packName) = {}
             /\ Len(Persisted.installs) = Len(mem.installs) - 1]_vars

\* two records of two packs in one sink, the first of them just reinstalled
C9_Witness ==
    /\ res.op = "install_pack"
    /\ res.err = "ok"
    /\ res.old_paths # << >>
    /\ LET state == load_state_at(stateFile).state
       IN  /\ Len(state.installs) = 2
           /\ state.installs[1].pack = res.pack
           /\ state.installs[2].pack # res.pack

----------------------------------------------------------------------------
\* C10: a successful uninstall_pack returns the record stored for the pair,
\* leaves none of its installed_paths existing, removes exactly that record
\* from state.installs and leaves every other record and every directory
\* the removed record does not list unchanged.
C10_UninstallRemovesTheRecordAndItsPaths ==
    [][UninstallSucceeded =>
          LET at == RecordsOf(mem, CurrentSink, packName)
          IN  /\ Cardinality(at) = 1
              /\ \A i \in at :
                    /\ res'.old_paths = mem.installs[i].installed_paths
                    /\ \A path \in Range(mem.installs[i].installed_paths) :
                          ~Exists(fs', path)
                    /\ Persisted.installs =
                          SubSeq(mem.installs, 1, i - 1)
                              \o SubSeq(mem.installs, i + 1, Len(mem.installs))
              /\ \A d \in DOMAIN fs :
                    d \notin ListedDirs(mem, CurrentSink, packName) => Untouched(d)
              /\ DOMAIN fs' \subseteq DOMAIN fs]_vars

\* the second of two records has just been uninstalled and its paths are
\* gone; the record of the other pack and its directory remain
C10_Witness ==
    /\ res.op = "uninstall_pack"
    /\ res.err = "ok"
    /\ res.removed > 0
    /\ \A path \in Range(res.old_paths) : ~Exists(fs, path)
    /\ LET state == load_state_at(stateFile).state
       IN  /\ Len(state.installs) = 1
           /\ state.installs[1].pack # res.pack
           /\ \E path \in Range(state.installs[1].installed_paths) : Exists(fs, path)
    /\ cmd.file # stateFile
    /\ load_state_at(cmd.file).state.installs[2].pack = res.pack

----------------------------------------------------------------------------
\* C11: uninstall_pack for a (sink_path, pack) pair that has no record in the
\* state fails with PackNotInstalled and changes neither the state nor any
\* directory; an uninstall_pack of the same pair on the state and the
\* directories a successful uninstall leaves fails with PackNotInstalled.
C11_UninstallOfMissingPairIsRefused ==
    [][/\ (UninstallStepDone /\ RecordsOf(mem, CurrentSink, packName) = {})
          => /\ res'.err = "PackNotInstalled"
             /\ fs' = fs
             /\ stateFile' = stateFile
             /\ uninstall_pack(fs, mem, CurrentSink, packName).state = mem
             /\ pc' = "idle"
       /\ UninstallSucceeded
          => LET again == uninstall_pack(fs', Persisted, CurrentSink, packName)
             IN  /\ again.err = "PackNotInstalled"
                 /\ again.fs = fs'
                 /\ again.state = Persisted]_vars

\* an uninstall of a pack without a record has just been refused while the
\* state file holds the record of another pack and its directory exists
C11_Witness ==
    /\ res.op = "uninstall_pack"
    /\ res.err = "PackNotInstalled"
    /\ stateFile = cmd.file
    /\ LET state == load_state_at(stateFile).state
       IN  /\ state.installs # << >>
           /\ \A r \in Range(state.installs) : r.pack # res.pack
           /\ \E r \in Range(state.installs) :
                 \E path \in Range(r.installed_paths) : Exists(fs, path)

----------------------------------------------------------------------------
(* Vocabulary of the properties of resolve_pack *)

\* the ids discovered in the repository and in the tree of an import
LocalIds(repo) == Range(discover_skills(repo.tree, TRUE).skills)
ImportIds(import) == Range(discover_skills(import.tree, FALSE).skills)

MatchesNone(pat, ids) == \A id \in ids : ~match_pattern(pat, id)

\* the include patterns, local or of an import, that match no discovered
\* skill of their own source
ZeroIncludes(repo) ==
    {pat \in Range(repo.manifest.include) : MatchesNone(pat, LocalIds(repo))}
    \cup UNION {{pat \in Range(imp.include) : MatchesNone(pat, ImportIds(imp))} :
                   imp \in Range(repo.manifest.imports)}

AllPatterns(m) ==
    Range(m.include) \cup Range(m.exclude)
    \cup UNION {Range(imp.include) \cup Range(imp.exclude) : imp \in Range(m.imports)}

\* nothing but the include check can make resolve_pack fail
Resolvable(repo) ==
    /\ validate_pack(repo.manifest) = "ok"
    /\ discover_skills(repo.tree, TRUE).err = "ok"
    /\ \A pat \in AllPatterns(repo.manifest) : is_valid_pattern(pat)

----------------------------------------------------------------------------
\* C12: resolve_pack of a pack with a valid manifest, a valid skills layout
\* and valid patterns fails with PatternMatchedNothing exactly when some
\* include pattern, local or of an import, matches none of the skills
\* discovered for its own list, also when other patterns of that list match;
\* the error names such a pattern, and no pack with such a pattern resolves.
C12_EveryIncludePatternMustMatch ==
    ret.op = "resolve_pack" =>
        /\ ret.resolved.err = "ok" => ZeroIncludes(arg.repo) = {}
        /\ Resolvable(arg.repo) =>
              IF ZeroIncludes(arg.repo) = {}
              THEN ret.resolved.err = "ok"
              ELSE ret.resolved.err = "PatternMatchedNothing"
        /\ ret.resolved.err = "PatternMatchedNothing"
              => ret.resolved.pattern \in ZeroIncludes(arg.repo)

\* the include list of an import has one pattern that matches and one that
\* matches nothing, every local pattern matches, and the pack is refused
C12_Witness ==
    /\ ret.op = "resolve_pack"
    /\ ret.resolved.err = "PatternMatchedNothing"
    /\ ret.resolved.pattern = PatNone
    /\ arg.repo.manifest.include = <<IdB, IdA>>
    /\ arg.repo.tree = TreeAB
    /\ \E imp \in Range(arg.repo.manifest.imports) :
          /\ imp.include = <<IdA, PatNone>>
          /\ ~MatchesNone(IdA, ImportIds(imp))

----------------------------------------------------------------------------
\* the install name as specified: prefix, then sep, then the id with every
\* '/' replaced by sep
NameOf(pack, id) == pack.install_prefix \o pack.install_sep \o Replace(id, "/", pack.install_sep)

\* the positions of two entries of final_skills with one install name
SameName(rp) ==
    {<<i, j>> \in (1..Len(rp.final_skills)) \X (1..Len(rp.final_skills)) :
        /\ i < j
        /\ NameOf(rp.pack, rp.final_skills[i].id) = NameOf(rp.pack, rp.final_skills[j].id)}

----------------------------------------------------------------------------
MatchesSome(pats, id) == \E pat \in Range(pats) : match_pattern(pat, id)

\* what the include list of the pack selects of the local skills, and what
\* the include and exclude lists of an import select of its skills
LocalSelected(repo) == {id \in LocalIds(repo) : MatchesSome(repo.manifest.include, id)}
ImportSelected(imp) ==
    {id \in ImportIds(imp) : MatchesSome(imp.include, id) /\ ~MatchesSome(imp.exclude, id)}

\* the imports of the pack, by position, that select id
ImportsSelecting(repo, id) ==
    {k \in 1..Len(repo.manifest.imports) : id \in ImportSelected(repo.manifest.imports[k])}

\* the positions of the entries of final_skills with this id
EntriesOf(rp, id) == {i \in 1..Len(rp.final_skills) : rp.final_skills[i].id = id}

AllIds(repo) ==
    LocalIds(repo) \cup UNION {ImportIds(imp) : imp \in Range(repo.manifest.imports)}

\* C14: when a selected local skill and a selected imported skill, or the
\* skills of two imports, have the same id and no pack exclude pattern
\* matches it, final_skills holds one entry per source that selected it (no
\* deduplication by id), and detect_collisions on that final_skills fails
\* with NameCollision.
C14_DuplicateIdsAreKeptAndCollide ==
    /\ (ret.op = "resolve_pack" /\ ret.resolved.err = "ok") =>
          \A id \in AllIds(arg.repo) :
              ~MatchesSome(arg.repo.manifest.exclude, id) =>
                  /\ Cardinality(EntriesOf(ret.resolved, id)) =
                        (IF id \in LocalSelected(arg.repo) THEN 1 ELSE 0)
                        + Cardinality(ImportsSelecting(arg.repo, id))
                  /\ Cardinality({i \in EntriesOf(ret.resolved, id) :
                                     ~ret.resolved.final_skills[i].src.remote}) =
                        (IF id \in LocalSelected(arg.repo) THEN 1 ELSE 0)
    /\ ret.op = "detect_collisions" =>
          ((\E id \in AllIds(arg.repo) : Cardinality(EntriesOf(ret.resolved, id)) > 1)
           => ret.collision.err = "NameCollision")

\* the id "a" was selected locally and by two imports, the pack has an
\* exclude list that does not match it, final_skills holds the three
\* entries and the collision check fails
C14_Witness ==
    /\ ret.op = "detect_collisions"
    /\ ret.collision.err = "NameCollision"
    /\ arg.repo.manifest.exclude = <<PatNone>>
    /\ Cardinality(EntriesOf(ret.resolved, IdA)) = 3
    /\ Cardinality({i \in EntriesOf(ret.resolved, IdA) :
                       ret.resolved.final_skills[i].src.remote}) = 2

----------------------------------------------------------------------------
SortedById(skills) ==
    \A i, j \in 1..Len(skills) : i < j => StrLeq(skills[i].id, skills[j].id)

\* C15: for every successfully resolved pack, with or without pack exclude
\* patterns and with any number of imports, final_skills is sorted by id in
\* ascending order.
C15_FinalSkillsAreSortedById ==
    (ret.op = "resolve_pack" /\ ret.resolved.err = "ok")
    => SortedById(ret.resolved.final_skills)

\* the part of C15 that the code keeps: final_skills is sorted when the pack
\* has exclude patterns or no import contributes a skill
C15_SortedWithExcludesOrWithoutImports ==
    (/\ ret.op = "resolve_pack"
     /\ ret.resolved.err = "ok"
     /\ \/ arg.repo.manifest.exclude # << >>
        \/ \A i \in 1..Len(ret.resolved.final_skills) :
              ~ret.resolved.final_skills[i].src.remote)
    => SortedById(ret.resolved.final_skills)

----------------------------------------------------------------------------
\* the entries final_skills is specified to hold: the selected local skills
\* and the selected skills of every import, without those a pack exclude
\* pattern matches
ExpectedFinal(repo) ==
    {[id |-> id, src |-> LocalSrc] :
        id \in {x \in LocalSelected(repo) : ~MatchesSome(repo.manifest.exclude, x)}}
    \cup UNION {{[id |-> id, src |-> RemoteSrc(imp.repo)] :
                    id \in {x \in ImportSelected(imp) :
                               ~MatchesSome(repo.manifest.exclude, x)}} :
                   imp \in Range(repo.manifest.imports)}

\* C16: final_skills contains exactly the local skills matching some local
\* include pattern plus, for each import, the skills of that import matching
\* some include pattern and no exclude pattern of the same import, minus
\* every skill whose id matches a pack exclude pattern; no final skill
\* matches a pack exclude pattern, and the exclude patterns of an import
\* remove no local skill and no skill of another import.
C16_FinalSkillsAreTheSelectedMinusTheExcluded ==
    (ret.op = "resolve_pack" /\ ret.resolved.err = "ok") =>
        /\ Range(ret.resolved.final_skills) = ExpectedFinal(arg.repo)
        /\ \A sk \in Range(ret.resolved.final_skills) :
              ~MatchesSome(arg.repo.manifest.exclude, sk.id)
        /\ \A id \in LocalSelected(arg.repo) :
              ~MatchesSome(arg.repo.manifest.exclude, id)
              => [id |-> id, src |-> LocalSrc] \in Range(ret.resolved.final_skills)

\* the first import excludes "a"; the local "a" and the "a" of the second
\* import are in final_skills, the "a" of the first import is not
C16_Witness ==
    /\ ret.op = "resolve_pack"
    /\ ret.resolved.err = "ok"
    /\ arg.repo.manifest.include = <<IdB, IdA>>
    /\ arg.repo.manifest.exclude = <<PatNone>>
    /\ arg.repo.manifest.imports =
          <<ImportOf(RepoR, TreeAB, <<PatStar>>, <<IdA>>),
            ImportOf(RepoS, TreeAB, <<IdA>>, << >>)>>
    /\ Range(ret.resolved.final_skills) =
          {[id |-> IdA, src |-> LocalSrc], [id |-> IdB, src |-> LocalSrc],
           [id |-> IdB, src |-> RemoteSrc(RepoR)], [id |-> IdA, src |-> RemoteSrc(RepoS)]}

----------------------------------------------------------------------------
(* The segment-wise reference matcher *)

RECURSIVE SegmentMatches(_, _)
\* inside one segment a `*` matches any run of characters, also the empty
\* one, and every other character matches itself
SegmentMatches(pseg, iseg) ==
    IF pseg = << >> THEN iseg = << >>
    ELSE IF Head(pseg) = "*"
    THEN \E k \in 0..Len(iseg) : SegmentMatches(Tail(pseg), Drop(iseg, k))
    ELSE /\ iseg # << >>
         /\ Head(iseg) = Head(pseg)
         /\ SegmentMatches(Tail(pseg), Tail(iseg))

RECURSIVE SegmentsMatch(_, _)
\* a `**` segment matches zero or more whole segments, every other pattern
\* segment exactly one
SegmentsMatch(psegs, isegs) ==
    IF psegs = << >> THEN isegs = << >>
    ELSE IF Head(psegs) = StarStar
    THEN \E k \in 0..Len(isegs) : SegmentsMatch(Tail(psegs), Drop(isegs, k))
    ELSE /\ isegs # << >>
         /\ SegmentMatches(Head(psegs), Head(isegs))
         /\ SegmentsMatch(Tail(psegs), Tail(isegs))

ReferenceMatch(pattern, text) == SegmentsMatch(Split(pattern, "/"), Split(text, "/"))

----------------------------------------------------------------------------
\* C17: for every valid pattern p and id i, match_pattern(p, i) equals the
\* segment-wise reference matcher; `*` never crosses '/', "a/**" matches
\* "a" and "a/b/a", "a/*" does not match "a/b/a", "**/a/**" matches "a",
\* and matching is case-sensitive.
C17_MatchPatternIsTheSegmentWiseMatcher ==
    ret.op = "match_pattern" =>
        /\ is_valid_pattern(arg.patterns[1])
              => (ret.value <=> ReferenceMatch(arg.patterns[1], arg.text))
        /\ (arg.patterns[1] = <<"a", "/", "*", "*">>
            /\ arg.text \in {<<"a">>, <<"a", "/", "b", "/", "a">>}) => ret.value
        /\ (arg.patterns[1] = <<"a", "/", "*">>
            /\ arg.text = <<"a", "/", "b", "/", "a">>) => ~ret.value
        /\ (arg.patterns[1] = <<"*", "*", "/", "a", "/", "*", "*">>
            /\ arg.text = <<"a">>) => ret.value
        /\ (arg.patterns[1] = <<"a">> /\ arg.text = <<"A">>) => ~ret.value

\* "**/a/**" has just been matched against "a": both `**` match no segment
C17_Witness ==
    /\ ret.op = "match_pattern"
    /\ arg.patterns = << <<"*", "*", "/", "a", "/", "*", "*">> >>
    /\ arg.text = <<"a">>
    /\ ret.value

----------------------------------------------------------------------------
\* validity, character by character: the pattern is not empty,
\* has no '/' at either end and no "//", and every "**" in it stands
\* between '/' or the ends of the pattern
WellFormed(p) ==
    /\ p # EmptyStr
    /\ p[1] # "/"
    /\ p[Len(p)] # "/"
    /\ \A i \in 1..(Len(p) - 1) : ~(p[i] = "/" /\ p[i + 1] = "/")
    /\ \A i \in 1..(Len(p) - 1) :
          (p[i] = "*" /\ p[i + 1] = "*")
          => /\ (i = 1 \/ p[i - 1] = "/")
             /\ (i + 1 = Len(p) \/ p[i + 2] = "/")

\* C18: is_valid_pattern(p) is false exactly when p is empty, or some
\* '/'-separated segment of p is empty, or some segment contains "**"
\* without being exactly "**"; PatternSet::new fails with an invalid-pattern
\* error naming the first invalid pattern of the list when any pattern of
\* the list is invalid, and only a set of valid patterns is ever matched;
\* match_pattern returns false for every id when its pattern is invalid.
C18_InvalidPatternsAreRejected ==
    /\ ret.op = "is_valid_pattern" => (ret.value <=> WellFormed(arg.patterns[1]))
    /\ ret.op = "PatternSet::new" =>
          IF \A i \in 1..Len(arg.patterns) : WellFormed(arg.patterns[i])
          THEN ret.err = "ok"
          ELSE /\ ret.err = "InvalidPattern"
               /\ \E i \in 1..Len(arg.patterns) :
                     /\ ret.pattern = arg.patterns[i]
                     /\ ~WellFormed(arg.patterns[i])
                     /\ \A j \in 1..(i - 1) : WellFormed(arg.patterns[j])
    /\ ret.op = "is_match" => \A i \in 1..Len(arg.patterns) : WellFormed(arg.patterns[i])
    /\ (ret.op = "match_pattern" /\ ~WellFormed(arg.patterns[1])) => ~ret.value

\* PatternSet::new has just refused a list whose first pattern is valid and
\* whose second is "**a"
C18_Witness ==
    /\ ret.op = "PatternSet::new"
    /\ ret.err = "InvalidPattern"
    /\ ret.pattern = <<"*", "*", "a">>
    /\ Len(arg.patterns) > 1
    /\ arg.patterns[1] = <<"a", "/", "*", "*">>
    /\ arg.patterns[2] = <<"*", "*", "a">>

----------------------------------------------------------------------------
\* the orderings of a list
Orderings(list) ==
    {[i \in 1..Len(list) |-> list[f[i]]] :
        f \in {g \in [1..Len(list) -> 1..Len(list)] :
                  \A i, j \in 1..Len(list) : g[i] = g[j] => i = j}}

\* C19: for every list of valid patterns and every id, PatternSet::is_match
\* is true if and only if at least one pattern of the list individually
\* matches the id, which is what match_count_per_pattern counts, and the
\* result is the same for every ordering of the list.
C19_SetMatchesIffSomePatternMatches ==
    ret.op = "is_match" =>
        /\ ret.value <=> \E i \in 1..Len(arg.patterns) :
                             match_pattern(arg.patterns[i], arg.text)
        /\ ret.value <=> \E i \in 1..Len(arg.patterns) : ret.counts[i] > 0
        /\ \A i \in 1..Len(arg.patterns) :
              ret.counts[i] = IF match_pattern(arg.patterns[i], arg.text) THEN 1 ELSE 0
        /\ \A list \in Orderings(arg.patterns) :
              PatternSetIsMatch(list, arg.text) = ret.value

\* only the last pattern of the list, "**/b", matches the id "a/b"
C19_Witness ==
    /\ ret.op = "is_match"
    /\ ret.value
    /\ arg.text = <<"a", "/", "b">>
    /\ arg.patterns = << <<"*">>, <<"*", "*", "/", "b">> >>
    /\ ret.counts = <<0, 1>>

----------------------------------------------------------------------------
\* d is a proper '/'-prefix of e
ProperPrefix(d, e) ==
    /\ Len(d) < Len(e)
    /\ SubSeq(e, 1, Len(d)) = d
    /\ e[Len(d) + 1] = "/"

\* the directories below the root that hold a regular file SKILL.md
Candidates(entries) ==
    {entries[i].dir : i \in {k \in 1..Len(entries) :
                                entries[k].is_file /\ entries[k].dir # EmptyStr}}

\* C20: discover_skills returns exactly the directories below the root that
\* contain a regular file SKILL.md and are not an ancestor of another such
\* directory, each once: a directory with SKILL.md that contains a nested
\* skill directory is not returned, and no returned skill id is a proper
\* '/'-prefix of another returned skill id.
C20_DiscoveredSkillsAreTheLeaves ==
    (ret.op = "discover_skills" /\ ret.found.err = "ok") =>
        /\ Range(ret.found.skills) =
              {d \in Candidates(arg.entries) :
                  \A e \in Candidates(arg.entries) : ~ProperPrefix(d, e)}
        /\ Cardinality(Range(ret.found.skills)) = Len(ret.found.skills)
        /\ \A d, e \in Range(ret.found.skills) : ~ProperPrefix(d, e)

\* "a" and "a/b/a" hold a SKILL.md file and "a/b" a directory of that name:
\* only "a/b/a" is returned
C20_Witness ==
    /\ ret.op = "discover_skills"
    /\ ret.found.err = "ok"
    /\ Range(arg.entries) =
          {SkillMd(IdA, TRUE), SkillMd(IdAB, FALSE),
           SkillMd(<<"a", "/", "b", "/", "a">>, TRUE)}
    /\ ret.found.skills = << <<"a", "/", "b", "/", "a">> >>

----------------------------------------------------------------------------
\* the root holds a regular file SKILL.md
RootHasSkillMd(entries) ==
    \E i \in 1..Len(entries) : entries[i].is_file /\ entries[i].dir = EmptyStr

\* the walk without the entries of the root
BelowRoot(entries) == SelectSeq(entries, LAMBDA e : e.dir # EmptyStr)

\* C21: a SKILL.md placed directly in the discovery root makes local
\* discovery fail with an invalid-layout error, whereas remote discovery
\* skips it silently: it does not return the root as a skill and returns
\* what it returns for the same tree without that file.
C21_RootSkillMdIsInvalidLocallyAndSkippedRemotely ==
    (ret.op = "discover_skills" /\ RootHasSkillMd(arg.entries)) =>
        IF arg.is_local
        THEN ret.found.err = "InvalidSkillLayout" /\ ret.found.skills = << >>
        ELSE /\ ret.found.err = "ok"
             /\ EmptyStr \notin Range(ret.found.skills)
             /\ ret.found.skills =
                   discover_skills(SkillMdParents(BelowRoot(arg.entries)), FALSE).skills
             /\ Range(ret.found.skills) =
                   {d \in Candidates(arg.entries) :
                       \A e \in Candidates(arg.entries) : ~ProperPrefix(d, e)}

\* a remote tree with a SKILL.md in its root and in "a" and "b": the two
\* skills are returned, in the order the walk met them
C21_Witness ==
    /\ ret.op = "discover_skills"
    /\ ~arg.is_local
    /\ arg.entries = <<SkillMd(IdB, TRUE), SkillMd(EmptyStr, TRUE), SkillMd(IdA, TRUE)>>
    /\ ret.found.err = "ok"
    /\ ret.found.skills = <<IdB, IdA>>

\* the same tree discovered locally is refused
C21_WitnessLocal ==
    /\ ret.op = "discover_skills"
    /\ arg.is_local
    /\ RootHasSkillMd(arg.entries)
    /\ Len(arg.entries) = 3
    /\ ret.found.err = "InvalidSkillLayout"

----------------------------------------------------------------------------
\* C22: the list of skills returned by discovery is sorted by id, whatever
\* order the directory walk visits the entries in; each id is the
\* '/'-joined path of the skill directory relative to the root.
C22_DiscoveredSkillsAreSortedById ==
    (ret.op = "discover_skills" /\ ret.found.err = "ok") =>
        /\ IsSortedStrs(ret.found.skills)
        /\ Range(ret.found.skills) \subseteq Candidates(arg.entries)

\* what does hold: the ids are returned in the order the walk met their
\* directories, and each is the '/'-joined relative path of its directory
C22_DiscoveredSkillsKeepTheWalkOrder ==
    (ret.op = "discover_skills" /\ ret.found.err = "ok") =>
        /\ Range(ret.found.skills) \subseteq Candidates(arg.entries)
        /\ \A i, j \in 1..Len(ret.found.skills) :
              i < j =>
                 \E m, n \in 1..Len(arg.entries) :
                    /\ m < n
                    /\ arg.entries[m].dir = ret.found.skills[i]
                    /\ arg.entries[n].dir = ret.found.skills[j]
        /\ \A d \in Range(ret.found.skills) : JoinWith(Split(d, "/"), "/") = d

----------------------------------------------------------------------------
\* C23: for every StateFile s, write_state_at(s, path) followed by
\* load_state_at(path) returns a state equal to s: the same version and the
\* same install records, in the same order, with the same field values.
C23_WrittenStateLoadsBackEqual ==
    [][(res.op = "sync_dir" /\ res'.op = "load_state") =>
          /\ res'.err = "ok"
          /\ mem' = arg.state
          /\ mem'.version = arg.state.version
          /\ Len(mem'.installs) = Len(arg.state.installs)
          /\ \A i \in 1..Len(arg.state.installs) :
                mem'.installs[i] = arg.state.installs[i]]_vars

\* the state whose first record holds quotes, backslashes, a newline and an
\* absent ref was written and loaded back
C23_Witness ==
    /\ res.op = "load_state"
    /\ res.err = "ok"
    /\ arg.of = "write_state_at"
    /\ stateFile = File(Serialize(arg.state))
    /\ mem = arg.state
    /\ Len(mem.installs) = 2
    /\ mem.installs[1] = QuotedRecord
    /\ mem.installs[1].imports[1].ref_name = None
    /\ mem.installs[1].imports[2].ref_name = Some(JsonNull)

----------------------------------------------------------------------------
\* an interrupted install of the running command left the partial copy of
\* one of its skills in the sink
LeftInterrupted ==
    \E k \in 1..Len(resolved.final_skills) :
        LET dest == DestOf(resolved, CurrentSink, resolved.final_skills[k].id)
        IN  /\ Exists(fs, dest)
            /\ fs[Physical(dest)] =
                  PartialCopy(resolved.pack.name, resolved.final_skills[k].id)

\* the target step of a run that is not itself interrupted
RerunStep == InstallStepDone /\ res'.err # "Io"

\* C24: if an install is interrupted after it has removed or copied at least
\* one destination but before the state is persisted, then re-running the
\* same install on the same sink succeeds and leaves the sink directories
\* and the state record as an uninterrupted install would have left them.
C24_RerunOfInterruptedInstallSucceeds ==
    [][(RerunStep /\ LeftInterrupted) =>
          /\ res'.err = "ok"
          /\ InstalledAs(Persisted, fs', resolved, CurrentSink)]_vars

\* what does hold: the re-run succeeds, and leaves the pack installed, when
\* every destination the interrupted install left behind was already listed
\* in the persisted record of the pack; otherwise it is refused and the
\* state file stays as it was
C24_RerunSucceedsOverListedDestinations ==
    [][(RerunStep /\ LeftInterrupted) =>
          IF \A dest \in Dests(resolved, CurrentSink) :
                Exists(fs, dest) => dest \in Listed(mem, CurrentSink, resolved.pack.name)
          THEN /\ res'.err = "ok"
               /\ InstalledAs(Persisted, fs', resolved, CurrentSink)
          ELSE /\ res'.err = "DestinationNotOwned"
               /\ stateFile' = stateFile]_vars

\* a re-run has just been refused over the copies its interrupted
\* predecessor left: the first skill complete, the second partial
C24_RerunRefused ==
    /\ res.op = "install_pack"
    /\ res.err = "DestinationNotOwned"
    /\ stateFile = NoFile
    /\ Exists(fs, PathJoin(SinkS, install_name(NameP, DefaultSep, IdA)))
    /\ fs[Physical(PathJoin(SinkS, install_name(NameP, DefaultSep, IdA)))] = SkillCopy(NameP, IdA)
    /\ Exists(fs, PathJoin(SinkS, install_name(NameP, DefaultSep, IdB)))
    /\ fs[Physical(PathJoin(SinkS, install_name(NameP, DefaultSep, IdB)))] = PartialCopy(NameP, IdB)

----------------------------------------------------------------------------
\* no path is listed by two records of one sink
OwnedByOnePack(state) ==
    \A i, j \in 1..Len(state.installs) :
        (i # j /\ state.installs[i].sink_path = state.installs[j].sink_path) =>
            Range(state.installs[i].installed_paths)
                \cap Range(state.installs[j].installed_paths) = {}

\* C25: in every state reachable by any sequence of install and uninstall
\* commands on one sink, including commands that fail part-way, no
\* destination path is listed in installed_paths of two different records
\* of that sink.
C25_EveryPathIsOwnedByOnePack ==
    /\ OwnedByOnePack(load_state_at(stateFile).state)
    /\ OwnedByOnePack(mem)

----------------------------------------------------------------------------
\* both invocations have written the state file
BothDone == \A i \in DOMAIN procs : procs[i].pc = "done"

\* the persisted state file holds the record of invocation i
HasRecordOf(file, i) ==
    RecordsOf(load_state_at(file).state, resolve_sink_path(procs[i].agent),
              procs[i].repo.manifest.name) # {}

\* C26 as stated: when two invocations run concurrently against the same
\* state file, each doing load_state, then install_pack of a different
\* pack, then write_state, every interleaving ends with the records of both
\* packs present in the persisted state file.
C26_BothRecordsSurviveEveryInterleaving ==
    BothDone => \A i \in DOMAIN procs : HasRecordOf(stateFile, i)

\* C26: the persisted state file ends as the complete state of the
\* invocation that wrote last, with that invocation's record; the record of
\* the other invocation is in it if and only if the last writer loaded the
\* state file after the other had written it, and is lost otherwise.
C26_LastWriterKeepsOnlyWhatItLoaded ==
    BothDone =>
        \E w \in DOMAIN procs :
            /\ stateFile = File(Serialize(procs[w].mem))
            /\ HasRecordOf(stateFile, w)
            /\ \A o \in DOMAIN procs \ {w} :
                  /\ HasRecordOf(stateFile, o) <=> HasRecordOf(procs[w].file, o)
                  /\ ~HasRecordOf(procs[w].file, o) =>
                        Len(load_state_at(stateFile).state.installs) = 1

\* both invocations loaded the absent state file, both installed and both
\* wrote: the file holds the record of pack q alone, next to the installed
\* directories of both packs
C26_Witness ==
    /\ BothDone
    /\ procs[1].file = NoFile
    /\ procs[2].file = NoFile
    /\ ~HasRecordOf(stateFile, 1)
    /\ HasRecordOf(stateFile, 2)
    /\ \A i \in DOMAIN procs :
          \A dest \in Dests(procs[i].resolved, resolve_sink_path(procs[i].agent)) :
              Exists(fs, dest)
    /\ procs[1].resolved.final_skills # << >>

\* the second invocation loaded after the first had written: both records
C26_WitnessSequential ==
    /\ BothDone
    /\ HasRecordOf(stateFile, 1)
    /\ HasRecordOf(stateFile, 2)
    /\ HasRecordOf(procs[2].file, 1)

----------------------------------------------------------------------------
\* the records of a StateFile that are not of the pair (sink_path, pack)
OtherRecords(state, sink_path, pack) ==
    SelectSeq(state.installs,
              LAMBDA r : ~(r.sink_path = sink_path /\ r.pack = pack))

\* C27: in an install or uninstall command over several sink targets, the
\* state file is written once per target, after that target's install_pack
\* or uninstall_pack has returned successfully and before the next target
\* is started, and at no other moment: when a target starts the file holds
\* the changes of all targets before it, a successful target adds its own
\* change and nothing else, and a failing target leaves the file as the
\* targets before it left it, with nothing of its own.
C27_StateIsWrittenOncePerSuccessfulTarget ==
    [][/\ pc \in {"install", "uninstall"} =>
             /\ load_state_at(stateFile).state = mem
             /\ pending # << >>
       /\ ~(InstallStepDone \/ UninstallStepDone) => stateFile' = stateFile
       /\ (InstallStepDone \/ UninstallStepDone) /\ res'.err # "ok" =>
             /\ stateFile' = stateFile
             /\ pc' = "idle"
       /\ InstallSucceeded =>
             /\ stateFile' # NoFile
             /\ OtherRecords(Persisted, CurrentSink, resolved.pack.name)
                   = OtherRecords(mem, CurrentSink, resolved.pack.name)
             /\ Listed(Persisted, CurrentSink, resolved.pack.name)
                   = Dests(resolved, CurrentSink)
             /\ pc' = "install" => mem' = Persisted
       /\ UninstallSucceeded =>
             /\ stateFile' # NoFile
             /\ Persisted.installs = OtherRecords(mem, CurrentSink, packName)
             /\ Len(Persisted.installs) = Len(mem.installs) - 1
             /\ pc' = "uninstall" => mem' = Persisted]_vars

\* the second target of an uninstall over two sinks has just failed: the
\* state file holds the removal the first target made and is not the file
\* the command found
C27_Witness ==
    /\ res.op = "uninstall_pack"
    /\ res.err = "PackNotInstalled"
    /\ Len(cmd.agents) = 2
    /\ res.sink_path = resolve_sink_path(cmd.agents[2])
    /\ stateFile # cmd.file
    /\ RecordsOf(load_state_at(cmd.file).state, resolve_sink_path(cmd.agents[1]), res.pack) # {}
    /\ RecordsOf(load_state_at(stateFile).state, resolve_sink_path(cmd.agents[1]), res.pack) = {}

----------------------------------------------------------------------------
\* what install_pack returns for the target about to start, for a copy
\* failing at any skill or at none
InstallPackReturns ==
    {install_pack(fs, mem, resolved, Head(pending), CurrentSink, fault) :
        fault \in 0..Len(resolved.final_skills)}

\* C28: whenever install_pack or uninstall_pack returns an error
\* (DestinationNotOwned, path-containment failure, I/O failure), the
\* StateFile value passed to it holds exactly the same records as before
\* the call.
C28_FailedCallLeavesTheRecordsAsBefore ==
    [][/\ InstallStepDone =>
             \A r \in InstallPackReturns : r.err # "ok" => r.state.installs = mem.installs
       /\ UninstallStepDone =>
             LET r == uninstall_pack(fs, mem, CurrentSink, packName)
             IN  r.err # "ok" => r.state.installs = mem.installs]_vars

\* what does hold: a failing install_pack leaves the records as they were,
\* and so does an uninstall_pack that finds no record; an uninstall_pack
\* that fails on one of the recorded paths has already removed the record
C28_OnlyInstallAndMissingPairLeaveTheRecords ==
    [][/\ InstallStepDone =>
             \A r \in InstallPackReturns : r.err # "ok" => r.state.installs = mem.installs
       /\ UninstallStepDone =>
             LET r == uninstall_pack(fs, mem, CurrentSink, packName)
             IN  /\ r.err = "PackNotInstalled" => r.state.installs = mem.installs
                 /\ r.err \notin {"ok", "PackNotInstalled"} =>
                       /\ Len(r.state.installs) = Len(mem.installs) - 1
                       /\ RecordsOf(r.state, CurrentSink, packName) = {}
                       /\ stateFile' = stateFile]_vars

\* an uninstall has just failed on a recorded path outside the sink; the
\* state file still holds the record
C28_UninstallFailedOnRecordedPath ==
    /\ res.op = "uninstall_pack"
    /\ res.err = "OutsideSink"
    /\ RecordsOf(load_state_at(stateFile).state, res.sink_path, res.pack) # {}

----------------------------------------------------------------------------
\* the directories of a file system that are the sink or lie below it
DirsIn(f, sink_path) == {d \in DOMAIN f : Within(d, Physical(sink_path))}

\* the sink exists, none of the pack's destinations exists and the state
\* has no record of the pair
FreshFor(f, state, rp, sink_path) ==
    /\ Exists(f, sink_path)
    /\ \A dest \in Dests(rp, sink_path) : ~Exists(f, dest)
    /\ RecordsOf(state, sink_path, rp.pack.name) = {}

\* install_pack and then uninstall_pack have both succeeded on a fresh sink
RoundTripDone ==
    /\ ret.op = "uninstall_pack"
    /\ ret.uninstalled.err = "ok"
    /\ FreshFor(arg.fs, arg.state, arg.resolved, resolve_sink_path(arg.agent))

\* C29: for an existing sink in which none of the pack's destinations
\* exists and the state has no record for (sink_path, pack), a successful
\* install_pack followed by a successful uninstall_pack of the same pack
\* restores the set of directories in the sink and the list of records in
\* the state to what they were before the install.
C29_InstallThenUninstallRestores ==
    RoundTripDone =>
        /\ DirsIn(ret.uninstalled.fs, resolve_sink_path(arg.agent))
              = DirsIn(arg.fs, resolve_sink_path(arg.agent))
        /\ ret.uninstalled.state.installs = arg.state.installs

\* what does hold: the records are restored, every destination is gone, the
\* directories that were in the sink are still there with their content,
\* and the directories are restored when no install name holds a '/'
C29_RestoresUnlessNamesAreNested ==
    RoundTripDone =>
        LET sink_path == resolve_sink_path(arg.agent)
            rp == arg.resolved
            flat == \A k \in 1..Len(rp.final_skills) :
                       "/" \notin Range(install_name(rp.pack.install_prefix,
                                                     rp.pack.install_sep,
                                                     rp.final_skills[k].id))
        IN  /\ ret.uninstalled.state.installs = arg.state.installs
            /\ \A dest \in Dests(rp, sink_path) : ~Exists(ret.uninstalled.fs, dest)
            /\ \A d \in DOMAIN arg.fs :
                  d \in DOMAIN ret.uninstalled.fs /\ ret.uninstalled.fs[d] = arg.fs[d]
            /\ flat => DirsIn(ret.uninstalled.fs, sink_path) = DirsIn(arg.fs, sink_path)

\* the pack with separator "/" was installed and uninstalled: its
\* destination /s/p/a is gone and the directory /s/p stays behind
C29_DirectoryLeftBehind ==
    /\ RoundTripDone
    /\ arg.resolved.pack.install_sep = Slash
    /\ ~Exists(arg.fs, PathJoin(SinkS, NameP))
    /\ Exists(ret.uninstalled.fs, PathJoin(SinkS, NameP))
    /\ ~Exists(ret.uninstalled.fs, PathJoin(PathJoin(SinkS, NameP), IdA))

----------------------------------------------------------------------------
\* the include patterns of a manifest, local and of its imports
IncludePatterns(m) ==
    Range(m.include) \cup UNION {Range(imp.include) : imp \in Range(m.imports)}

\* the exclude patterns, of the pack or of an import, that match no skill
\* the resolution discovered
IdleExcludes(repo) ==
    {pat \in Range(repo.manifest.exclude) : MatchesNone(pat, AllIds(repo))}
    \cup UNION {{pat \in Range(imp.exclude) : MatchesNone(pat, ImportIds(imp))} :
                   imp \in Range(repo.manifest.imports)}

\* every skill an include list selects is removed by an exclude list
EverySelectedIsExcluded(repo) ==
    /\ \A id \in LocalSelected(repo) : MatchesSome(repo.manifest.exclude, id)
    /\ \A imp \in Range(repo.manifest.imports) :
          \A id \in ImportSelected(imp) : MatchesSome(repo.manifest.exclude, id)

\* C30: the zero-match check applies to include patterns only and is
\* evaluated on the discovered skills before any exclude is applied: an
\* exclude pattern, of the pack or of an import, that matches no skill is
\* not an error, and resolve_pack succeeds with an empty final_skills when
\* the excludes remove every selected skill.
C30_ExcludesNeverFailTheZeroMatchCheck ==
    ret.op = "resolve_pack" =>
        /\ (Resolvable(arg.repo) /\ ZeroIncludes(arg.repo) = {})
              => ret.resolved.err = "ok"
        /\ ret.resolved.err = "PatternMatchedNothing"
              => /\ ret.resolved.pattern \in IncludePatterns(arg.repo.manifest)
                 /\ ret.resolved.pattern \in ZeroIncludes(arg.repo)
        /\ (Resolvable(arg.repo) /\ ZeroIncludes(arg.repo) = {}
              /\ EverySelectedIsExcluded(arg.repo))
              => ret.resolved.err = "ok" /\ ret.resolved.final_skills = << >>

\* the pack selects local skills and imports one skill whose import has an
\* exclude pattern that matches nothing; the pack exclude "**" removes all
\* of them, and the pack resolves to no skill
C30_Witness ==
    /\ ret.op = "resolve_pack"
    /\ ret.resolved.err = "ok"
    /\ ret.resolved.final_skills = << >>
    /\ arg.repo.manifest.exclude = <<StarStar>>
    /\ LocalSelected(arg.repo) # {}
    /\ \E imp \in Range(arg.repo.manifest.imports) :
          /\ imp.exclude = <<PatNone>>
          /\ ImportSelected(imp) # {}
    /\ PatNone \in IdleExcludes(arg.repo)

\* a pack exclude pattern that matches nothing, next to skills that stay
C30_WitnessIdleExclude ==
    /\ ret.op = "resolve_pack"
    /\ ret.resolved.err = "ok"
    /\ arg.repo.manifest.exclude = <<PatNone>>
    /\ ret.resolved.final_skills # << >>

====
